---------------------------- MODULE Spec2Model ----------------------------
(***************************************************************************)
(* State-machine model of the secure session and protocol engine of        *)
(* secure-chat-canvas: MessageStoreManager / SessionStoreManager and       *)
(* MessageHandler (src/src/lib/storage/messageStore.ts) and the            *)
(* useMessageSync hook (src/src/hooks/useMessages.ts).                     *)
(*                                                                         *)
(* Every action is one run-to-completion step of the JavaScript event      *)
(* loop: the code between two points where an async function really        *)
(* suspends (an IndexedDB request, a WebCrypto call, a timer, a socket     *)
(* event).  The IndexedDB layer, the WebSocketClient and the crypto        *)
(* primitives are not part of the translated sources; they are modelled    *)
(* from their documented contract.                                         *)
(***************************************************************************)
EXTENDS Integers, Sequences, FiniteSets, Bags, TLC

\* ------------------------------------------------------------ bounds ----
\* number of MessageHandler.sendMessage calls
MaxSends == 2
\* number of inbound 'message' frames dispatched to handleEncryptedMessage
MaxInbound == 2
\* number of transitions of the connection to 'connected'
MaxConnects == 1
\* number of clock ticks the model follows
MaxTicks == 1

\* key requests answered
MaxKeyRequests == 2

\* ------------------------------------------------- program constants ----
\* setTimeout(..., 10000) in requestPublicKey
KeyRequestTimeoutMs == 10000
\* granularity of the model clock: one tick is one key-request timeout
TickMs == KeyRequestTimeoutMs

Me == "alice"
Peers == {"bob", "carol"}
NoUser == ""

SendIds == 1..MaxSends
InIds == 1..MaxInbound
SyncIds == 1..MaxConnects
FrameIds == {1, 2, 3}

\* ------------------------------------------------------------- state ----
VARIABLES
  now,                 \* Date.now()
  conn,                \* WebSocketClient connection state
  wire,                \* bag of frames the transport accepted (client.send returned true)
  subscribed,          \* MessageHandler.unsubscribes is non-empty (handlers registered)
  myKeyPair,           \* MessageHandler.myKeyPair # null
  myUserId,            \* MessageHandler.myUserId
  sessions,            \* MessageHandler.sessions : peerId -> session
  pendingKeyRequests,  \* MessageHandler.pendingKeyRequests : userId -> resolver
  timers,              \* live key-request timeout timers : request -> deadline
  messages,            \* IndexedDB MESSAGE_STORE : id -> envelope
  sessionRecords,      \* IndexedDB SESSION_STORE : session id -> peerId
  pendingSync,         \* MessageStoreManager.pendingSync : id -> meta
  initialized,         \* MessageStoreManager.initialized
  syncInterval,        \* MessageStoreManager.syncInterval # null
  snd,                 \* sendMessage calls : SendIds -> activation record
  inb,                 \* handleEncryptedMessage calls : InIds -> activation record
  syn,                 \* syncPendingMessages calls : SyncIds -> activation record
  hook,                \* useMessageSync.syncNow activation record
  upd,                 \* updateMessage activation record
  imp,                 \* importMessages activation record
  chat,                \* ChatProvider.sendMessage activation record
  kreq,                \* handleKeyRequest activation record
  swp,                 \* processPendingSync (periodic sweep) activation record
  wipe,                \* MessageStoreManager.clearAll activation record
  srch,                \* searchMessages activation record
  auth,                \* AuthProvider: currentKeyPair, stored user, logout / restore calls
  identity,            \* IndexedDB key store: the 'identity' key record
  ui,                  \* typing / presence / read_receipt handlers and their callbacks
  del,                 \* deleteMessage / deleteConversationMessages activation record
  authState,           \* AuthProvider: the reducer's state, the state a restore captured
  view,                \* useMessages: messages, isLoading, hasMore, oldestTimestampRef, calls
  typing,              \* useTypingIndicators: typingMap, timeoutsRef, timers, queued updaters
  handshakes,          \* history: establishSecureSession invocations per peer
  onMessageCalls,      \* history: callbacks.onMessage invocations per inbound frame
  acks                 \* history: envelope ids the relay has acknowledged

vars == <<now, conn, wire, subscribed, myKeyPair, myUserId, sessions,
          pendingKeyRequests, timers, messages, sessionRecords, pendingSync,
          initialized, syncInterval, snd, inb, syn, hook, upd, imp, chat, kreq,
          swp, wipe, srch, auth, identity, ui, del, authState, view, typing,
          handshakes, onMessageCalls,
          acks>>

\* --------------------------------------------------- data and helpers ----
\* `msg-${n}` (suffix 0) and `msg-${n}-${random}` (suffix > 0)
MsgId(n, suffix) == [t |-> n, r |-> suffix]

NoId == MsgId(-1, 0)

ConversationOf(peer) == IF peer = "bob" THEN "conv-bob" ELSE "conv-carol"

\* An opaque ciphertext: the session that produced it (0: the remote peer's
\* end of the session), the plaintext it carries, and whether it
\* authenticates under the receiver's session.
Ciphertext(sid, body, valid) == [sid |-> sid, body |-> body, valid |-> valid]

\* The inbound 'message' frames the relay can deliver.  Frames 1 and 2 are two
\* different messages of the same sender that carry the same timestamp;
\* frame 3 is corrupted in transit.
FrameSender(m) == IF m = 3 THEN "carol" ELSE "bob"

FrameTimestamp(m) == IF m = 3 THEN TickMs ELSE 0

InboundPayload(m) ==
  [conversationId |-> ConversationOf(FrameSender(m)),
   senderId |-> FrameSender(m),
   recipientId |-> Me,
   ciphertext |-> Ciphertext(0, m, m # 3),
   timestamp |-> FrameTimestamp(m)]

Put(f, k, v) == [x \in DOMAIN f \cup {k} |-> IF x = k THEN v ELSE f[x]]

Remove(f, k) == [x \in DOMAIN f \ {k} |-> f[x]]

Empty == [x \in {} |-> 0]

IdLess(a, b) == a.t < b.t \/ (a.t = b.t /\ a.r < b.r)

\* first key of a non-empty id-keyed map, in the store's key order
FirstId(f) == CHOOSE a \in DOMAIN f : \A b \in DOMAIN f : a = b \/ IdLess(a, b)

\* ---------------------------------------------------- external layers ----
\* WebSocketClient.send(type, payload): the frame is transmitted, and true
\* returned, exactly when the connection is 'connected'.
ClientSendAccepts == conn = "connected"

ClientSend(frame) == IF ClientSendAccepts THEN wire (+) SetToBag({frame}) ELSE wire

\* indexeddb.storeMessage: put by key path id (insert or overwrite)
StoreMessage(store, env) == Put(store, env.id, env)

\* indexeddb.markMessageSynced: set synced on the record, when it exists
MarkMessageSynced(store, id) ==
  IF id \in DOMAIN store THEN [store EXCEPT ![id].synced = TRUE] ELSE store

\* indexeddb.getUnsyncedMessages: the records with synced = false
GetUnsyncedMessages(store) ==
  [id \in {x \in DOMAIN store : ~store[x].synced} |-> store[id]]

\* crypto.encryptSessionMessage under a session
EncryptSessionMessage(session, plaintext) == Ciphertext(session, plaintext, TRUE)

\* crypto.decryptSessionMessage: succeeds exactly on an authentic ciphertext
DecryptSucceeds(session, ct) == ct.valid

\* ------------------------------------------------ MessageStoreManager ----
Envelope(id, payload) ==
  [id |-> id,
   conversationId |-> payload.conversationId,
   senderId |-> payload.senderId,
   recipientId |-> payload.recipientId,
   ciphertext |-> payload.ciphertext,
   timestamp |-> payload.timestamp]

\* saveMessage builds { ...message, synced: false, read: false }
FullMessage(message) ==
  [id |-> message.id,
   conversationId |-> message.conversationId,
   senderId |-> message.senderId,
   recipientId |-> message.recipientId,
   ciphertext |-> message.ciphertext,
   timestamp |-> message.timestamp,
   synced |-> FALSE,
   read |-> FALSE]

PendingMeta == [syncStatus |-> "pending", retryCount |-> 0]

\* MessageStoreManager.init: marks the store initialized and starts the monitor
StoreInit ==
  /\ initialized' = TRUE
  /\ syncInterval' = (syncInterval \/ ~initialized)

\* MessageStoreManager.saveMessage(message), the IndexedDB write succeeding
SaveMessage(message) ==
  /\ StoreInit
  /\ messages' = StoreMessage(messages, FullMessage(message))
  /\ pendingSync' = Put(pendingSync, message.id, PendingMeta)

\* MessageStoreManager.saveMessage(message), the IndexedDB write failing:
\* init has run, nothing is stored and the promise rejects
SaveMessageFails ==
  /\ StoreInit
  /\ UNCHANGED <<messages, pendingSync>>

\* MessageStoreManager.markSynced(id)
MarkSynced(id) ==
  /\ messages' = MarkMessageSynced(messages, id)
  /\ pendingSync' = Remove(pendingSync, id)

\* ----------------------------------------------------------- initial ----
NoCiphertext == Ciphertext(0, 0, FALSE)

IdleSend == [pc |-> "idle", op |-> "none", to |-> NoUser, from |-> NoUser, session |-> 0,
             id |-> NoId, ct |-> NoCiphertext, status |-> "none"]

IdleInbound == [pc |-> "idle", frame |-> 0, session |-> 0, id |-> NoId,
                since |-> 0, outcome |-> "none"]

\* History kept with a run: the unsynced envelopes at the transition to
\* 'connected' and the copies of their frames on the wire then (atConnect,
\* copiesAtConnect), the same when getUnsynced returned (due, before), and
\* whether client.send refused a frame of this run.
IdleSync == [pc |-> "idle", queue |-> Empty, cur |-> NoId,
             atConnect |-> Empty, copiesAtConnect |-> Empty,
             due |-> Empty, before |-> Empty, refused |-> FALSE]

IdleHook == [pc |-> "idle", queue |-> Empty]

IdleUpdate == [pc |-> "idle", updates |-> Empty, message |-> Empty]

IdleImport == [pc |-> "idle", queue |-> <<>>]

IdleChat == [pc |-> "idle", id |-> NoId, status |-> "none", stored |-> FALSE]

IdleKeyRequest == [pc |-> "idle", target |-> NoUser, requester |-> NoUser,
                   outcome |-> "none"]

IdleSweep == [pc |-> "idle"]

IdleWipe == [pc |-> "idle"]

\* no searchMessages call yet; `stored` remembers how many envelopes the
\* store held when the last call was made
IdleSearch == [query |-> "", conversationId |-> "", result |-> <<>>, stored |-> 0]

\* identity key pairs: 0 stands for null, a key pair stands for its exported
\* public key and its fingerprint as well
NoKey == 0

KeyPairs == {1, 2}

Passwords == {"pw1234567", "guess"}

\* an EncryptedKeyBackup: the key pair it holds and the password that opens it
NoBackup == [key |-> NoKey, password |-> ""]

\* AuthProvider: the module variable currentKeyPair, state.user (its
\* publicKey / fingerprint), the user kept by storeUser, the running call
IdleAuth == [pc |-> "idle", currentKeyPair |-> NoKey, user |-> NoKey,
             storedUser |-> NoKey, backup |-> NoBackup, password |-> "",
             outcome |-> "none"]

\* null
Null == "null"

\* part_000 lines 18-24: the reducer's initial state
initialState ==
  [user |-> Null, token |-> Null, isAuthenticated |-> FALSE, isLoading |-> TRUE,
   error |-> Null]

\* undefined, for a timestamp
Undefined == -1

\* useMessages after its first render (useMessages.ts lines 49-54), with no
\* call in flight
IdleView == [messages |-> <<>>, isLoading |-> FALSE, hasMore |-> TRUE, error |-> Null,
             oldestTimestamp |-> Undefined, pc |-> "idle", before |-> Undefined,
             deleting |-> NoId]

\* useTypingIndicators mounted with a client (useMessages.ts lines 461-465):
\* the state typingMap as the set of its (conversationId, userId) entries,
\* timeoutsRef, the timers window.setTimeout has pending, the state updaters
\* React has queued for the next render; the clock, the frames received and
\* the time of each pair's last isTyping frame
IdleTyping ==
  [wsClient |-> 1, typingMap |-> {}, timeoutsRef |-> Empty, timers |-> Empty,
   queue |-> <<>>, nextTimer |-> 1, now |-> 0, frames |-> 0, last |-> Empty]

\* deleteMessage / deleteConversationMessages: the id being deleted, the
\* envelopes still to delete, the count so far
IdleDelete == [pc |-> "idle", messageId |-> NoId, queue |-> Empty, deletedCount |-> 0]

\* the read_receipt handler's call and the last event each UI callback got
IdleUi == [pc |-> "idle", messageId |-> NoId, message |-> Empty,
           onTyping |-> NoUser, onPresence |-> NoUser, onReadReceipt |-> NoId]

\* The state after `new WebSocketClient(...)`, `new MessageHandler(client)`
\* and the module-level `new MessageStoreManager()`.
Init ==
  /\ now = 0
  /\ conn = "disconnected"
  /\ wire = EmptyBag
  /\ subscribed = TRUE
  /\ myKeyPair = FALSE
  /\ myUserId = NoUser
  /\ sessions = Empty
  /\ pendingKeyRequests = Empty
  /\ timers = Empty
  /\ messages = Empty
  /\ sessionRecords = Empty
  /\ pendingSync = Empty
  /\ initialized = FALSE
  /\ syncInterval = FALSE
  /\ snd = [i \in SendIds |-> IdleSend]
  /\ inb = [j \in InIds |-> IdleInbound]
  /\ syn = [k \in SyncIds |-> IdleSync]
  /\ hook = IdleHook
  /\ upd = IdleUpdate
  /\ imp = IdleImport
  /\ chat = IdleChat
  /\ kreq = IdleKeyRequest
  /\ swp = IdleSweep
  /\ wipe = IdleWipe
  /\ srch = IdleSearch
  /\ auth = IdleAuth
  /\ identity = Empty
  /\ ui = IdleUi
  /\ del = IdleDelete
  /\ view = IdleView
  /\ typing = IdleTyping
  /\ authState = [state |-> initialState, captured |-> initialState,
                  pc |-> "idle", last |-> "none"]
  /\ handshakes = [p \in Peers |-> 0]
  /\ onMessageCalls = [m \in FrameIds |-> 0]
  /\ acks = {}

storeVars == <<messages, pendingSync, initialized, syncInterval>>

handlerVars == <<subscribed, myKeyPair, myUserId, sessions, pendingKeyRequests, timers>>

historyVars == <<handshakes, onMessageCalls, acks>>

appVars == <<swp, wipe, srch, auth, identity, ui>>

viewVars == <<del, authState, view, typing>>

\* No sendMessage call stands between its saveMessage and its client.send:
\* that continuation runs before any other callback of the program.
NoContinuationPending == \A i \in SendIds : snd[i].pc # "transmit"

\* ------------------------------------------- MessageHandler: identity ----
\* MessageHandler.initialize(userId, keyPair); the application initializes
\* a handler it has not destroyed (useWebSocket drops a destroyed handler).
Initialize ==
  /\ NoContinuationPending
  /\ subscribed
  /\ ~myKeyPair
  /\ myUserId' = Me
  /\ myKeyPair' = TRUE
  /\ UNCHANGED <<now, conn, wire, subscribed, sessions, pendingKeyRequests,
                 timers, storeVars, sessionRecords, snd, inb, syn, hook, upd, imp, historyVars, chat, kreq, appVars, viewVars>>

\* MessageHandler.destroy()
Destroy ==
  /\ NoContinuationPending
  /\ subscribed
  /\ subscribed' = FALSE
  /\ sessions' = Empty
  /\ pendingKeyRequests' = Empty
  /\ myKeyPair' = FALSE
  /\ myUserId' = NoUser
  /\ UNCHANGED <<now, conn, wire, timers, storeVars, sessionRecords,
                 snd, inb, syn, hook, upd, imp, historyVars, chat, kreq, appVars, viewVars>>

\* ---------------------------------------- MessageHandler.sendMessage ----
\* The first idle activation record: calls are numbered in call order.
FirstIdle(f, ids) == CHOOSE i \in ids : f[i].pc = "idle" /\ \A h \in ids : h < i => f[h].pc # "idle"

\* sendMessage up to its first suspension: the initialization check, the
\* session lookup and either the call of establishSession (which invokes
\* establishSecureSession) or, on a cached session, the message id and
\* timestamp and the call of encryptSessionMessage.
SendStart(i, recipientId) ==
  /\ NoContinuationPending
  /\ snd[i].pc = "idle"
  /\ i = FirstIdle(snd, SendIds)
  /\ IF ~myKeyPair \/ myUserId = NoUser
       THEN /\ snd' = [snd EXCEPT ![i].pc = "failed", ![i].op = "sendMessage",
                                   ![i].to = recipientId]
            /\ UNCHANGED handshakes
       ELSE IF recipientId \in DOMAIN sessions
         THEN /\ snd' = [snd EXCEPT ![i].pc = "encrypt", ![i].op = "sendMessage",
                                     ![i].to = recipientId,
                                     ![i].session = sessions[recipientId],
                                     ![i].id = MsgId(now, i)]
              /\ UNCHANGED handshakes
         ELSE /\ snd' = [snd EXCEPT ![i].pc = "handshake", ![i].op = "sendMessage",
                                     ![i].to = recipientId]
              /\ handshakes' = [handshakes EXCEPT ![recipientId] = @ + 1]
  /\ UNCHANGED <<now, conn, wire, handlerVars, storeVars, sessionRecords,
                 inb, syn, hook, upd, imp, onMessageCalls, acks, chat, kreq, appVars, viewVars>>

\* A faulty variant of getOrCreateSession: it negotiates a new session even
\* when one is cached
GetOrCreateStartRenegotiates(i, peerId) ==
  /\ NoContinuationPending
  /\ snd[i].pc = "idle"
  /\ i = FirstIdle(snd, SendIds)
  /\ snd' = [snd EXCEPT ![i].pc = IF myKeyPair THEN "handshake" ELSE "failed",
                         ![i].op = "getOrCreateSession", ![i].to = peerId]
  /\ handshakes' = [handshakes EXCEPT ![peerId] = IF myKeyPair THEN @ + 1 ELSE @]
  /\ UNCHANGED <<now, conn, wire, handlerVars, storeVars, sessionRecords,
                 inb, syn, hook, upd, imp, onMessageCalls, acks, chat, kreq, appVars, viewVars>>

\* getOrCreateSession(peerId, publicKey, fingerprint) up to its first
\* suspension (lines 849-859): a cached session is returned as it is,
\* otherwise establishSession is called.
GetOrCreateStart(i, peerId) ==
  /\ NoContinuationPending
  /\ snd[i].pc = "idle"
  /\ i = FirstIdle(snd, SendIds)
  /\ IF peerId \in DOMAIN sessions
       THEN /\ snd' = [snd EXCEPT ![i].pc = "done", ![i].op = "getOrCreateSession",
                                   ![i].to = peerId, ![i].session = sessions[peerId]]
            /\ UNCHANGED handshakes
       ELSE IF ~myKeyPair
         THEN /\ snd' = [snd EXCEPT ![i].pc = "failed", ![i].op = "getOrCreateSession",
                                     ![i].to = peerId]
              /\ UNCHANGED handshakes
         ELSE /\ snd' = [snd EXCEPT ![i].pc = "handshake", ![i].op = "getOrCreateSession",
                                     ![i].to = peerId]
              /\ handshakes' = [handshakes EXCEPT ![peerId] = @ + 1]
  /\ UNCHANGED <<now, conn, wire, handlerVars, storeVars, sessionRecords,
                 inb, syn, hook, upd, imp, onMessageCalls, acks, chat, kreq, appVars, viewVars>>

\* A faulty variant of establishSession: a peer that has a cached session
\* keeps it
SendHandshakeKeepsFirst(i) ==
  /\ NoContinuationPending
  /\ snd[i].pc = "handshake"
  /\ sessions' = IF snd[i].to \in DOMAIN sessions THEN sessions
                 ELSE Put(sessions, snd[i].to, i)
  /\ snd' = [snd EXCEPT ![i].pc = "saveSession", ![i].session = i]
  /\ UNCHANGED <<now, conn, wire, subscribed, myKeyPair, myUserId,
                 pendingKeyRequests, timers, storeVars, sessionRecords,
                 inb, syn, hook, upd, imp, historyVars, chat, kreq, appVars, viewVars>>

\* establishSession after establishSecureSession resolved: the new session
\* is cached, then sessionStore.saveSession is called.
SendHandshake(i) ==
  /\ NoContinuationPending
  /\ snd[i].pc = "handshake"
  /\ sessions' = Put(sessions, snd[i].to, i)
  /\ snd' = [snd EXCEPT ![i].pc = "saveSession", ![i].session = i]
  /\ UNCHANGED <<now, conn, wire, subscribed, myKeyPair, myUserId,
                 pendingKeyRequests, timers, storeVars, sessionRecords,
                 inb, syn, hook, upd, imp, historyVars, chat, kreq, appVars, viewVars>>

\* establishSession after saveSession resolved (lines 739-749).  Back in
\* sendMessage the message id and timestamp are taken and
\* encryptSessionMessage is called; getOrCreateSession returns.
SendSaveSession(i) ==
  /\ NoContinuationPending
  /\ snd[i].pc = "saveSession"
  /\ sessionRecords' = Put(sessionRecords, snd[i].session, snd[i].to)
  /\ snd' = IF snd[i].op = "sendMessage"
              THEN [snd EXCEPT ![i].pc = "encrypt", ![i].id = MsgId(now, i)]
              ELSE [snd EXCEPT ![i].pc = "done"]
  /\ UNCHANGED <<now, conn, wire, handlerVars, storeVars,
                 inb, syn, hook, upd, imp, historyVars, chat, kreq, appVars, viewVars>>

\* establishSession when saveSession rejects (lines 739-746): the rejection
\* leaves establishSession and its caller, which has no catch; the session
\* cached at line 736 stays in the cache.
SendSaveSessionFails(i) ==
  /\ NoContinuationPending
  /\ snd[i].pc = "saveSession"
  /\ snd' = [snd EXCEPT ![i].pc = "failed"]
  /\ UNCHANGED <<now, conn, wire, handlerVars, storeVars, sessionRecords,
                 inb, syn, hook, upd, imp, historyVars, chat, kreq, appVars, viewVars>>

\* sendMessage after encryptSessionMessage resolved: saveMessage is called.
SendEncrypt(i) ==
  /\ NoContinuationPending
  /\ snd[i].pc = "encrypt"
  /\ snd' = [snd EXCEPT ![i].pc = "persist", ![i].from = myUserId,
                         ![i].ct = EncryptSessionMessage(snd[i].session, i)]
  /\ UNCHANGED <<now, conn, wire, handlerVars, storeVars, sessionRecords,
                 inb, syn, hook, upd, imp, historyVars, chat, kreq, appVars, viewVars>>

\* the envelope fields sendMessage passes to saveMessage and to client.send
OutboundPayload(i) ==
  [conversationId |-> ConversationOf(snd[i].to),
   senderId |-> snd[i].from,
   recipientId |-> snd[i].to,
   ciphertext |-> snd[i].ct,
   timestamp |-> snd[i].id.t]

MessageFrame(payload) == [type |-> "message", payload |-> payload]

\* A faulty variant of sendMessage: it hands the frame to the transport first and stores
\* the envelope afterwards
SendPersistStepAfterSend(i) ==
  /\ wire' = ClientSend(MessageFrame(OutboundPayload(i)))
  /\ snd' = [snd EXCEPT ![i].pc = "transmit"]
  /\ UNCHANGED storeVars

\* sendMessage: `await messageStore.saveMessage(...)` (lines 613-621)
SendPersistStep(i) ==
  \/ /\ SaveMessage(Envelope(snd[i].id, OutboundPayload(i)))
     /\ snd' = [snd EXCEPT ![i].pc = "transmit"]
     /\ UNCHANGED wire
  \/ /\ SaveMessageFails
     /\ snd' = [snd EXCEPT ![i].pc = "failed"]
     /\ UNCHANGED wire

\* A faulty variant of the end of sendMessage: the returned record says
\* 'sent' whatever client.send returned
SendTransmitStepAlwaysSent(i) ==
  /\ wire' = ClientSend(MessageFrame(OutboundPayload(i)))
  /\ snd' = [snd EXCEPT ![i].pc = "done", ![i].status = "sent"]
  /\ UNCHANGED storeVars

\* sendMessage: `client.send('message', payload)` and the returned record
\* (lines 623-645)
SendTransmitStep(i) ==
  /\ wire' = ClientSend(MessageFrame(OutboundPayload(i)))
  /\ snd' = [snd EXCEPT ![i].pc = "done",
                         ![i].status = IF ClientSendAccepts THEN "sent" ELSE "sending"]
  /\ UNCHANGED storeVars

SendPersist(i) ==
  /\ NoContinuationPending
  /\ snd[i].pc = "persist"
  /\ SendPersistStep(i)
  /\ UNCHANGED <<now, conn, handlerVars, sessionRecords, inb, syn, hook, upd, imp, historyVars, chat, kreq, appVars, viewVars>>

SendTransmit(i) ==
  /\ snd[i].pc = "transmit"
  /\ SendTransmitStep(i)
  /\ UNCHANGED <<now, conn, handlerVars, sessionRecords, inb, syn, hook, upd, imp, historyVars, chat, kreq, appVars, viewVars>>

\* --------------------------- MessageHandler: inbound 'message' frames ----
KeyRequestFrame(userId) ==
  [type |-> "key_request",
   payload |-> [requesterId |-> myUserId, targetUserId |-> userId]]

AckFrame(id) ==
  [type |-> "message_ack", payload |-> [messageId |-> id, status |-> "delivered"]]

\* requestPublicKey(userId) for the call j of handleEncryptedMessage: a new
\* timer, the resolver stored under userId, one key_request sent.
RequestPublicKey(j, userId) ==
  /\ timers' = Put(timers, j, now + KeyRequestTimeoutMs)
  /\ pendingKeyRequests' = Put(pendingKeyRequests, userId, j)
  /\ wire' = ClientSend(KeyRequestFrame(userId))

\* The transport dispatches inbound frame m to the 'message' subscriber:
\* handleEncryptedMessage up to its first suspension.
ReceiveMessage(j, m) ==
  /\ NoContinuationPending
  /\ conn = "connected"
  /\ subscribed
  /\ inb[j].pc = "idle"
  /\ j = FirstIdle(inb, InIds)
  /\ LET sender == InboundPayload(m).senderId IN
     IF sender \notin DOMAIN sessions
       THEN /\ RequestPublicKey(j, sender)
            /\ inb' = [inb EXCEPT ![j].pc = "awaitKey", ![j].frame = m,
                                   ![j].since = now]
            /\ UNCHANGED sessions
       ELSE /\ inb' = [inb EXCEPT ![j].pc = "decrypt", ![j].frame = m,
                                   ![j].session = sessions[sender]]
            /\ UNCHANGED <<timers, pendingKeyRequests, wire, sessions>>
  /\ UNCHANGED <<now, conn, subscribed, myKeyPair, myUserId, storeVars,
                 sessionRecords, snd, syn, hook, upd, imp, historyVars, chat, kreq, appVars, viewVars>>

\* A faulty variant of handleKeyResponse: it resolves the request but leaves
\* its entry in the map
HandleKeyResponseKeepsEntry(userId) ==
  IF userId \in DOMAIN pendingKeyRequests
    THEN LET j == pendingKeyRequests[userId] IN
         /\ timers' = Remove(timers, j)
         /\ pendingKeyRequests' = pendingKeyRequests
         /\ inb' = [inb EXCEPT ![j].pc = "saveNoSession", ![j].id = MsgId(now, 0)]
    ELSE UNCHANGED <<timers, pendingKeyRequests, inb>>

\* handleKeyResponse(payload) with payload.userId = userId; the resolver
\* clears its own timer and resumes its caller, which takes Date.now() for
\* the envelope id and calls saveMessage.
HandleKeyResponse(userId) ==
  IF userId \in DOMAIN pendingKeyRequests
    THEN LET j == pendingKeyRequests[userId] IN
         /\ timers' = Remove(timers, j)
         /\ pendingKeyRequests' = Remove(pendingKeyRequests, userId)
         /\ inb' = [inb EXCEPT ![j].pc = "saveNoSession", ![j].id = MsgId(now, 0)]
    ELSE UNCHANGED <<timers, pendingKeyRequests, inb>>

ReceiveKeyResponse(userId) ==
  /\ NoContinuationPending
  /\ conn = "connected"
  /\ subscribed
  /\ HandleKeyResponse(userId)
  /\ UNCHANGED <<now, conn, wire, subscribed, myKeyPair, myUserId, sessions,
                 storeVars, sessionRecords, snd, syn, hook, upd, imp, historyVars, chat, kreq, appVars, viewVars>>

\* A faulty variant of the timeout callback: it rejects but leaves the pending
\* entry in place
KeyRequestTimeoutKeepsEntry(j) ==
  /\ pendingKeyRequests' = pendingKeyRequests
  /\ timers' = Remove(timers, j)
  /\ inb' = [inb EXCEPT ![j].pc = "done", ![j].outcome = "timeout"]

\* The timeout callback of request j (lines 757-760): the entry under the
\* requested user is deleted and the promise rejected; the rejection lands
\* in handleEncryptedMessage's catch, which calls onError.
KeyRequestTimeout(j) ==
  /\ pendingKeyRequests' = Remove(pendingKeyRequests, FrameSender(inb[j].frame))
  /\ timers' = Remove(timers, j)
  /\ inb' = [inb EXCEPT ![j].pc = "done", ![j].outcome = "timeout"]

TimerFires(j) ==
  /\ NoContinuationPending
  /\ j \in DOMAIN timers
  /\ now >= timers[j]
  /\ KeyRequestTimeout(j)
  /\ UNCHANGED <<now, conn, wire, subscribed, myKeyPair, myUserId, sessions,
                 storeVars, sessionRecords, snd, syn, hook, upd, imp, historyVars, chat, kreq, appVars, viewVars>>

\* the envelope handleEncryptedMessage stores for call j
InboundEnvelope(j) ==
  Envelope(inb[j].id, [InboundPayload(inb[j].frame) EXCEPT !.recipientId = myUserId])

\* handleEncryptedMessage, no-session branch, after requestPublicKey
\* resolved: saveMessage completes (lines 659-668) or rejects (catch).
InboundSaveNoSession(j) ==
  /\ NoContinuationPending
  /\ inb[j].pc = "saveNoSession"
  /\ \/ /\ SaveMessage(InboundEnvelope(j))
        /\ inb' = [inb EXCEPT ![j].pc = "done", ![j].outcome = "stored"]
     \/ /\ SaveMessageFails
        /\ inb' = [inb EXCEPT ![j].pc = "done", ![j].outcome = "storeFailed"]
  /\ UNCHANGED <<now, conn, wire, handlerVars, sessionRecords, snd, syn,
                 hook, upd, imp, historyVars, chat, kreq, appVars, viewVars>>

\* handleEncryptedMessage after decryptSessionMessage settled (lines
\* 671-701): on success the record is built and saveMessage called, on
\* failure the catch calls onError.
InboundDecrypt(j) ==
  /\ NoContinuationPending
  /\ inb[j].pc = "decrypt"
  /\ IF DecryptSucceeds(inb[j].session, InboundPayload(inb[j].frame).ciphertext)
       THEN inb' = [inb EXCEPT ![j].pc = "persist",
                               ![j].id = MsgId(InboundPayload(inb[j].frame).timestamp, 0)]
       ELSE inb' = [inb EXCEPT ![j].pc = "done", ![j].outcome = "decryptFailed"]
  /\ UNCHANGED <<now, conn, wire, handlerVars, storeVars, sessionRecords,
                 snd, syn, hook, upd, imp, historyVars, chat, kreq, appVars, viewVars>>

\* A faulty variant of the end of handleEncryptedMessage: onMessage and the
\* acknowledgment do not wait for the outcome of saveMessage
InboundPersistNotifiesAlways(j) ==
  /\ NoContinuationPending
  /\ inb[j].pc = "persist"
  /\ onMessageCalls' = [onMessageCalls EXCEPT ![inb[j].frame] = @ + 1]
  /\ wire' = ClientSend(AckFrame(inb[j].id))
  /\ \/ /\ SaveMessage(InboundEnvelope(j))
        /\ inb' = [inb EXCEPT ![j].pc = "done", ![j].outcome = "delivered"]
     \/ /\ SaveMessageFails
        /\ inb' = [inb EXCEPT ![j].pc = "done", ![j].outcome = "storeFailed"]
  /\ UNCHANGED <<now, conn, handlerVars, sessionRecords, snd, syn, hook, upd, imp,
                 handshakes, acks, chat, kreq, appVars, viewVars>>

\* handleEncryptedMessage after saveMessage settled (lines 694-715):
\* onMessage, then the message_ack; a rejected write lands in the catch.
InboundPersist(j) ==
  /\ NoContinuationPending
  /\ inb[j].pc = "persist"
  /\ \/ /\ SaveMessage(InboundEnvelope(j))
        /\ onMessageCalls' = [onMessageCalls EXCEPT ![inb[j].frame] = @ + 1]
        /\ wire' = ClientSend(AckFrame(inb[j].id))
        /\ inb' = [inb EXCEPT ![j].pc = "done", ![j].outcome = "delivered"]
     \/ /\ SaveMessageFails
        /\ inb' = [inb EXCEPT ![j].pc = "done", ![j].outcome = "storeFailed"]
        /\ UNCHANGED <<onMessageCalls, wire>>
  /\ UNCHANGED <<now, conn, handlerVars, sessionRecords, snd, syn, hook, upd, imp,
                 handshakes, acks, chat, kreq, appVars, viewVars>>

\* ------------------------------------ MessageHandler.handleKeyRequest ----
LocalPublicKey == "alice-public-key"

LocalFingerprint == "alice-fingerprint"

\* the frame handleKeyRequest sends (lines 782-786)
KeyResponseOf(userId) ==
  [type |-> "key_response",
   payload |-> [userId |-> userId, publicKey |-> LocalPublicKey,
                fingerprint |-> LocalFingerprint]]

KeyResponseFrame == KeyResponseOf(myUserId)

\* the key_response frames the transport has accepted, among the frames w
KeyResponsesIn(w) == CopiesIn(KeyResponseOf(Me), w)

\* the targets a key_request may name: the local user, a peer, nobody
Targets == {Me, "bob", NoUser}

\* A faulty variant of handleKeyRequest: it answers only requesters it has
\* a session with
ReceiveKeyRequestNeedsSession(requester, target) ==
  /\ NoContinuationPending
  /\ conn = "connected"
  /\ subscribed
  /\ kreq.pc \in {"idle", "done"}
  /\ KeyResponsesIn(wire) < MaxKeyRequests
  /\ kreq' = IF ~myKeyPair \/ target # myUserId \/ requester \notin DOMAIN sessions
              THEN [pc |-> "done", target |-> target, requester |-> requester,
                    outcome |-> "ignored"]
              ELSE [pc |-> "respond", target |-> target, requester |-> requester,
                    outcome |-> "none"]
  /\ UNCHANGED <<now, conn, wire, handlerVars, storeVars, sessionRecords,
                 snd, inb, syn, hook, upd, imp, chat, historyVars, appVars, viewVars>>

\* the 'key_request' subscription (lines 523-527) and handleKeyRequest up to
\* `await import(...)` (lines 777-780): a request for another target, or one
\* that reaches a handler without key pair, is dropped
ReceiveKeyRequest(requester, target) ==
  /\ NoContinuationPending
  /\ conn = "connected"
  /\ subscribed
  /\ kreq.pc \in {"idle", "done"}
  /\ KeyResponsesIn(wire) < MaxKeyRequests
  /\ kreq' = IF ~myKeyPair \/ target # myUserId
              THEN [pc |-> "done", target |-> target, requester |-> requester,
                    outcome |-> "ignored"]
              ELSE [pc |-> "respond", target |-> target, requester |-> requester,
                    outcome |-> "none"]
  /\ UNCHANGED <<now, conn, wire, handlerVars, storeVars, sessionRecords,
                 snd, inb, syn, hook, upd, imp, chat, historyVars, appVars, viewVars>>

\* handleKeyRequest after the import resolved (lines 782-786): the
\* key_response is handed to client.send; reading the key pair of a handler
\* destroyed in the meantime throws
KeyRequestRespond ==
  /\ NoContinuationPending
  /\ kreq.pc = "respond"
  /\ IF myKeyPair
       THEN /\ wire' = ClientSend(KeyResponseFrame)
            /\ kreq' = [kreq EXCEPT !.pc = "done", !.outcome = "responded"]
       ELSE /\ wire' = wire
            /\ kreq' = [kreq EXCEPT !.pc = "done", !.outcome = "threw"]
  /\ UNCHANGED <<now, conn, handlerVars, storeVars, sessionRecords,
                 snd, inb, syn, hook, upd, imp, chat, historyVars, appVars, viewVars>>

\* --------------------------------- MessageHandler.syncPendingMessages ----
\* the frame syncPendingMessages re-sends for a stored envelope
ResendFrame(msg) ==
  MessageFrame([conversationId |-> msg.conversationId,
                senderId |-> msg.senderId,
                recipientId |-> msg.recipientId,
                ciphertext |-> msg.ciphertext,
                timestamp |-> msg.timestamp])

\* A faulty variant of the loop: it leaves after the first envelope it has sent
SyncLoopStopsAfterFirst(k, queue, run) ==
  IF queue = Empty \/ ~ClientSendAccepts
    THEN /\ syn' = [syn EXCEPT ![k] = [run EXCEPT !.pc = "done", !.queue = Empty,
                                                  !.cur = NoId,
                                                  !.refused = (queue # Empty)]]
         /\ UNCHANGED wire
    ELSE LET id == FirstId(queue) IN
         /\ wire' = ClientSend(ResendFrame(queue[id]))
         /\ syn' = [syn EXCEPT ![k] = [run EXCEPT !.pc = "mark", !.queue = Empty,
                                                  !.cur = id]]

\* The for-loop of syncPendingMessages from the head of `queue` to its next
\* suspension.  A refused send does not suspend, so with the connection down
\* the loop runs through the rest of the queue without effect; an accepted
\* send suspends in `await messageStore.markSynced(msg.id)`.
SyncLoop(k, queue, run) ==
  IF queue = Empty \/ ~ClientSendAccepts
    THEN /\ syn' = [syn EXCEPT ![k] = [run EXCEPT !.pc = "done", !.queue = Empty,
                                                  !.cur = NoId,
                                                  !.refused = (queue # Empty)]]
         /\ UNCHANGED wire
    ELSE LET id == FirstId(queue) IN
         /\ wire' = ClientSend(ResendFrame(queue[id]))
         /\ syn' = [syn EXCEPT ![k] = [run EXCEPT !.pc = "mark",
                                                  !.queue = Remove(queue, id),
                                                  !.cur = id]]

\* how many copies of each envelope's frame the transport has accepted
CopiesOnWire(queue) == [id \in DOMAIN queue |-> CopiesIn(ResendFrame(queue[id]), wire)]

\* syncPendingMessages after getUnsynced resolved (lines 827-840)
SyncRead(k) ==
  /\ NoContinuationPending
  /\ syn[k].pc = "read"
  /\ StoreInit
  /\ LET unsynced == GetUnsyncedMessages(messages) IN
     SyncLoop(k, unsynced, [syn[k] EXCEPT !.due = unsynced,
                                          !.before = CopiesOnWire(unsynced)])
  /\ UNCHANGED <<now, conn, handlerVars, messages, pendingSync,
                 sessionRecords, snd, inb, hook, upd, imp, historyVars, chat, kreq, appVars, viewVars>>

\* syncPendingMessages after markSynced resolved (lines 840-843)
SyncMark(k) ==
  /\ NoContinuationPending
  /\ syn[k].pc = "mark"
  /\ MarkSynced(syn[k].cur)
  /\ SyncLoop(k, syn[k].queue, syn[k])
  /\ UNCHANGED <<now, conn, handlerVars, initialized, syncInterval,
                 sessionRecords, snd, inb, hook, upd, imp, historyVars, chat, kreq, appVars, viewVars>>

\* ------------------------------------------------------ the transport ----
\* The connection reaches 'connected'; the handler's onConnectionChange
\* subscriber (lines 569-578) starts syncPendingMessages, which suspends in
\* getUnsynced.
Connect(k) ==
  /\ NoContinuationPending
  /\ conn = "disconnected"
  /\ syn[k].pc = "idle"
  /\ k = FirstIdle(syn, SyncIds)
  /\ conn' = "connected"
  /\ syn' = [syn EXCEPT ![k].pc = IF subscribed THEN "read" ELSE "skipped",
                         ![k].atConnect = GetUnsyncedMessages(messages),
                         ![k].copiesAtConnect = CopiesOnWire(GetUnsyncedMessages(messages))]
  /\ UNCHANGED <<now, wire, handlerVars, storeVars, sessionRecords,
                 snd, inb, hook, upd, imp, historyVars, chat, kreq, appVars, viewVars>>

\* The connection is lost or closed.
Disconnect ==
  /\ NoContinuationPending
  /\ conn = "connected"
  /\ conn' = "disconnected"
  /\ UNCHANGED <<now, wire, handlerVars, storeVars, sessionRecords,
                 snd, inb, syn, hook, upd, imp, historyVars, chat, kreq, appVars, viewVars>>

\* The relay acknowledges a transmitted envelope.  MessageHandler registers
\* no subscriber for 'message_ack', so the frame changes nothing in the
\* program; the model only remembers that it arrived.
ReceiveAck(id) ==
  /\ NoContinuationPending
  /\ conn = "connected"
  /\ id \in DOMAIN messages
  /\ id \notin acks
  /\ BagIn(ResendFrame(messages[id]), wire)
  /\ acks' = acks \cup {id}
  /\ UNCHANGED <<now, conn, wire, handlerVars, storeVars, sessionRecords,
                 snd, inb, syn, hook, upd, imp, handshakes, onMessageCalls, chat, kreq, appVars, viewVars>>

\* ---------------------------------------------------------------------------
\* MessageStoreManager called by the application
\* ---------------------------------------------------------------------------
\* what a caller may pass as `updates` besides markAsRead's {read: true}
Updates == {[synced |-> TRUE], [ciphertext |-> Ciphertext(9, 9, TRUE)]}

\* `{...message, ...updates}`
Spread(message, updates) ==
  [f \in DOMAIN message |-> IF f \in DOMAIN updates THEN updates[f] ELSE message[f]]

\* updateMessage up to the result of getMessage (lines 120-127): a missing
\* message ends the call
UpdateMessage(messageId, updates) ==
  /\ NoContinuationPending
  /\ upd.pc = "idle"
  /\ StoreInit
  /\ upd' = IF messageId \in DOMAIN messages
              THEN [pc |-> "store", updates |-> updates, message |-> messages[messageId]]
              ELSE IdleUpdate
  /\ UNCHANGED <<now, conn, wire, handlerVars, messages, pendingSync, sessionRecords,
                 snd, inb, syn, hook, imp, historyVars, chat, kreq, appVars, viewVars>>

\* updateMessage: `await storeMessage(updated)` (lines 129-135)
UpdateMessageStore ==
  /\ NoContinuationPending
  /\ upd.pc = "store"
  /\ messages' = StoreMessage(messages, Spread(upd.message, upd.updates))
  /\ upd' = IdleUpdate
  /\ UNCHANGED <<now, conn, wire, handlerVars, pendingSync, initialized, syncInterval,
                 sessionRecords, snd, inb, syn, hook, imp, historyVars, chat, kreq, appVars, viewVars>>

\* markAsRead (lines 174-176)
MarkAsRead(messageId) == UpdateMessage(messageId, [read |-> TRUE])

\* a message of the server's history: its id is the id of an envelope the
\* client composes in slot n (n >= 1) or receives (n = 0)
ServerMessage(n) ==
  [id |-> MsgId(0, n), conversationId |-> ConversationOf("bob"), senderId |-> "bob",
   recipientId |-> Me, ciphertext |-> Ciphertext(8, n, TRUE), timestamp |-> 0,
   synced |-> FALSE, read |-> FALSE]

ImportBatches == {<<ServerMessage(1)>>, <<ServerMessage(0), ServerMessage(1)>>}

\* importMessages: `await this.init()` (lines 232-234)
ImportMessages(batch) ==
  /\ NoContinuationPending
  /\ imp.pc = "idle"
  /\ StoreInit
  /\ imp' = [pc |-> "get", queue |-> batch]
  /\ UNCHANGED <<now, conn, wire, handlerVars, messages, pendingSync, sessionRecords,
                 snd, inb, syn, hook, upd, historyVars, chat, kreq, appVars, viewVars>>

\* the loop of importMessages after the message at the head of the queue
ImportNext == IF Tail(imp.queue) = <<>> THEN IdleImport
              ELSE [pc |-> "get", queue |-> Tail(imp.queue)]

\* importMessages: `await this.getMessage(msg.id)` (lines 236-238)
ImportGet ==
  /\ NoContinuationPending
  /\ imp.pc = "get"
  /\ imp' = IF Head(imp.queue).id \in DOMAIN messages THEN ImportNext
              ELSE [imp EXCEPT !.pc = "store"]
  /\ UNCHANGED <<now, conn, wire, handlerVars, storeVars, sessionRecords,
                 snd, inb, syn, hook, upd, historyVars, chat, kreq, appVars, viewVars>>

\* importMessages: `await storeMessage({ ...msg, synced: true })` (line 239)
ImportStore ==
  /\ NoContinuationPending
  /\ imp.pc = "store"
  /\ messages' = StoreMessage(messages, [Head(imp.queue) EXCEPT !.synced = TRUE])
  /\ imp' = ImportNext
  /\ UNCHANGED <<now, conn, wire, handlerVars, pendingSync, initialized, syncInterval,
                 sessionRecords, snd, inb, syn, hook, upd, historyVars, chat, kreq, appVars, viewVars>>

\* ----------------------------------------- ChatProvider.sendMessage ----
\* the envelope ChatProvider.sendMessage stores (part_000 lines 639-646):
\* the ciphertext is btoa(content), the id is 'msg-' + Date.now()
ChatEnvelope(id) ==
  [id |-> id, conversationId |-> ConversationOf("bob"), senderId |-> "current-user",
   recipientId |-> "bob", ciphertext |-> Ciphertext(7, 7, TRUE), timestamp |-> id.t]

\* ChatProvider.sendMessage up to `await messageStore.saveMessage(...)`
\* (part_000 lines 622-639): the new message is shown with status 'sending'
ChatSendStart ==
  /\ NoContinuationPending
  /\ chat.pc = "idle"
  /\ chat' = [pc |-> "persist", id |-> MsgId(now, 0), status |-> "sending",
              stored |-> FALSE]
  /\ UNCHANGED <<now, conn, wire, handlerVars, storeVars, sessionRecords,
                 snd, inb, syn, hook, upd, imp, kreq, historyVars, appVars, viewVars>>

\* ChatProvider.sendMessage: saveMessage resolves, or rejects into the catch
\* that only logs (part_000 lines 638-652); either way the 500 ms timer of
\* the simulated send is started
ChatSendPersist ==
  /\ NoContinuationPending
  /\ chat.pc = "persist"
  /\ \/ /\ SaveMessage(ChatEnvelope(chat.id))
        /\ chat' = [chat EXCEPT !.pc = "wait", !.stored = TRUE]
     \/ /\ SaveMessageFails
        /\ chat' = [chat EXCEPT !.pc = "wait"]
  /\ UNCHANGED <<now, conn, wire, handlerVars, sessionRecords,
                 snd, inb, syn, hook, upd, imp, kreq, historyVars, appVars, viewVars>>

\* ChatProvider.sendMessage after the timer: the message is shown as 'sent'
\* (part_000 lines 654-667)
ChatSendDone ==
  /\ NoContinuationPending
  /\ chat.pc = "wait"
  /\ chat' = [chat EXCEPT !.pc = "done", !.status = "sent"]
  /\ UNCHANGED <<now, conn, wire, handlerVars, storeVars, sessionRecords,
                 snd, inb, syn, hook, upd, imp, kreq, historyVars, appVars, viewVars>>

\* ------------------------------------------- useMessageSync.syncNow ----
\* syncNow up to `await messageStore.getUnsynced()`; isOnline is taken to
\* be the connection being up.
HookStart ==
  /\ NoContinuationPending
  /\ hook.pc = "idle"
  /\ conn = "connected"
  /\ hook' = [hook EXCEPT !.pc = "read"]
  /\ UNCHANGED <<now, conn, wire, handlerVars, storeVars, sessionRecords,
                 snd, inb, syn, historyVars,
                 upd, imp, chat, kreq, appVars, viewVars>>

\* syncNow after getUnsynced resolved: markSynced is called for the first
\* envelope, or the run ends.
HookRead ==
  /\ NoContinuationPending
  /\ hook.pc = "read"
  /\ StoreInit
  /\ LET queue == GetUnsyncedMessages(messages) IN
     hook' = IF queue = Empty THEN IdleHook ELSE [pc |-> "mark", queue |-> queue]
  /\ UNCHANGED <<now, conn, wire, handlerVars, messages, pendingSync,
                 sessionRecords, snd, inb, syn, historyVars,
                 upd, imp, chat, kreq, appVars, viewVars>>

\* syncNow after a markSynced resolved (lines 225-232)
HookMark ==
  /\ NoContinuationPending
  /\ hook.pc = "mark"
  /\ LET id == FirstId(hook.queue) IN
     /\ MarkSynced(id)
     /\ hook' = IF Remove(hook.queue, id) = Empty THEN IdleHook
                 ELSE [hook EXCEPT !.queue = Remove(hook.queue, id)]
  /\ UNCHANGED <<now, conn, wire, handlerVars, initialized, syncInterval,
                 sessionRecords, snd, inb, syn, historyVars,
                 upd, imp, chat, kreq, appVars, viewVars>>

\* ---------------------------------------------------------------------------
\* AuthProvider (src/unnamed/part_000)
\* ---------------------------------------------------------------------------
\* crypto.createKeyBackup(keyPair, password)
CreateKeyBackup(keyPair, password) == [key |-> keyPair, password |-> password]

\* crypto.restoreKeyFromBackup(backup, password): the key pair of the backup
\* under the password that made it, a decryption error (NoKey) otherwise
RestoreKeyFromBackup(backup, password) ==
  IF password = backup.password THEN backup.key ELSE NoKey

\* the record storeKeyPair writes under id 'identity'
IdentityRecord(keyPair, backup) ==
  [id |-> "identity", publicKey |-> keyPair, fingerprint |-> keyPair,
   encryptedPrivateKey |-> backup]

\* indexeddb.clearAllData: every object store is emptied
ClearAllData ==
  /\ messages' = Empty
  /\ sessionRecords' = Empty
  /\ identity' = Empty

\* signup up to storeKeyPair (lines 233-246): mockSignup returned the user
\* and a fresh key pair
SignupStart(keyPair, password) ==
  /\ NoContinuationPending
  /\ auth.pc = "idle"
  /\ auth.user = NoKey
  /\ auth' = [auth EXCEPT !.pc = "signupStore", !.currentKeyPair = keyPair,
                          !.storedUser = keyPair,
                          !.backup = CreateKeyBackup(keyPair, password),
                          !.password = password, !.outcome = "none"]
  /\ UNCHANGED <<now, conn, wire, handlerVars, storeVars, sessionRecords,
                 snd, inb, syn, hook, upd, imp, chat, kreq, swp, wipe, srch,
                 identity, ui, historyVars, viewVars>>

\* signup after storeKeyPair resolved (lines 247-262)
SignupStore ==
  /\ NoContinuationPending
  /\ auth.pc = "signupStore"
  /\ identity' = Put(identity, "identity",
                     IdentityRecord(auth.backup.key, auth.backup))
  /\ auth' = [auth EXCEPT !.pc = "idle", !.user = auth.storedUser,
                          !.backup = NoBackup, !.password = "",
                          !.outcome = "signedUp"]
  /\ UNCHANGED <<now, conn, wire, handlerVars, storeVars, sessionRecords,
                 snd, inb, syn, hook, upd, imp, chat, kreq, swp, wipe, srch,
                 ui, historyVars, viewVars>>

\* logout up to `await clearAllData()` (lines 291-293): clearAuthData
LogoutStart ==
  /\ NoContinuationPending
  /\ auth.pc = "idle"
  /\ auth.user # NoKey
  /\ auth' = [auth EXCEPT !.pc = "logout", !.storedUser = NoKey,
                          !.outcome = "none"]
  /\ UNCHANGED <<now, conn, wire, handlerVars, storeVars, sessionRecords,
                 snd, inb, syn, hook, upd, imp, chat, kreq, swp, wipe, srch,
                 identity, ui, historyVars, viewVars>>

\* logout after clearAllData resolved (lines 293-295): the store manager is
\* not involved
LogoutDone ==
  /\ NoContinuationPending
  /\ auth.pc = "logout"
  /\ ClearAllData
  /\ auth' = [auth EXCEPT !.pc = "idle", !.currentKeyPair = NoKey,
                          !.user = NoKey, !.outcome = "loggedOut"]
  /\ UNCHANGED <<now, conn, wire, handlerVars, pendingSync, initialized,
                 syncInterval, snd, inb, syn, hook, upd, imp, chat, kreq,
                 swp, wipe, srch, ui, historyVars, viewVars>>

\* the backups a user may hold: one per key pair, made with the password
\* of the account
Backups == {CreateKeyBackup(k, "pw1234567") : k \in KeyPairs}

\* restoreFromBackup up to `await restoreKeyFromBackup` (lines 322-323)
RestoreStart(backup, password) ==
  /\ NoContinuationPending
  /\ auth.pc = "idle"
  /\ auth' = [auth EXCEPT !.pc = "restore", !.backup = backup,
                          !.password = password, !.outcome = "none"]
  /\ UNCHANGED <<now, conn, wire, handlerVars, storeVars, sessionRecords,
                 snd, inb, syn, hook, upd, imp, chat, kreq, swp, wipe, srch,
                 identity, ui, historyVars, viewVars>>

\* A faulty variant of restoreFromBackup: the key pair named by the backup
\* becomes current before the password has opened it
RestoreDecryptAssignsFirst ==
  /\ NoContinuationPending
  /\ auth.pc = "restore"
  /\ auth' = IF RestoreKeyFromBackup(auth.backup, auth.password) = NoKey
               THEN [auth EXCEPT !.pc = "idle", !.backup = NoBackup,
                                 !.password = "", !.outcome = "restoreFailed",
                                 !.currentKeyPair = auth.backup.key]
               ELSE [auth EXCEPT !.pc = "restoreStore",
                                 !.currentKeyPair = auth.backup.key]
  /\ UNCHANGED <<now, conn, wire, handlerVars, storeVars, sessionRecords,
                 snd, inb, syn, hook, upd, imp, chat, kreq, swp, wipe, srch,
                 identity, ui, historyVars, viewVars>>

\* restoreFromBackup after restoreKeyFromBackup settled (lines 323-327): a
\* rejection leaves the function (RestoreForm.handleRestore catches it and
\* shows the error); otherwise the key pair is exported and becomes current
RestoreDecrypt ==
  /\ NoContinuationPending
  /\ auth.pc = "restore"
  /\ auth' = IF RestoreKeyFromBackup(auth.backup, auth.password) = NoKey
               THEN [auth EXCEPT !.pc = "idle", !.backup = NoBackup,
                                 !.password = "", !.outcome = "restoreFailed"]
               ELSE [auth EXCEPT !.pc = "restoreStore",
                                 !.currentKeyPair =
                                    RestoreKeyFromBackup(auth.backup, auth.password)]
  /\ UNCHANGED <<now, conn, wire, handlerVars, storeVars, sessionRecords,
                 snd, inb, syn, hook, upd, imp, chat, kreq, swp, wipe, srch,
                 identity, ui, historyVars, viewVars>>

\* restoreFromBackup after storeKeyPair resolved (lines 327-350): the
\* identity record is replaced and the authenticated user updated
RestoreStore ==
  /\ NoContinuationPending
  /\ auth.pc = "restoreStore"
  /\ identity' = Put(identity, "identity",
                     IdentityRecord(auth.currentKeyPair, auth.backup))
  /\ auth' = [auth EXCEPT !.pc = "idle", !.backup = NoBackup, !.password = "",
                          !.outcome = "restored",
                          !.user = IF auth.user # NoKey
                                     THEN auth.currentKeyPair ELSE auth.user,
                          !.storedUser = IF auth.user # NoKey
                                           THEN auth.currentKeyPair
                                           ELSE auth.storedUser]
  /\ UNCHANGED <<now, conn, wire, handlerVars, storeVars, sessionRecords,
                 snd, inb, syn, hook, upd, imp, chat, kreq, swp, wipe, srch,
                 ui, historyVars, viewVars>>

\* ------------------------------------------------ authReducer, dispatch ----
\* A faulty variant of the reducer: AUTH_LOGOUT clears the flags and leaves
\* user and token
authReducerLogoutKeepsUser(state, action) ==
  CASE action.type = "AUTH_START" ->
         [state EXCEPT !.isLoading = TRUE, !.error = Null]
    [] action.type = "AUTH_SUCCESS" ->
         [state EXCEPT !.user = action.payload.user, !.token = action.payload.token,
                       !.isAuthenticated = TRUE, !.isLoading = FALSE, !.error = Null]
    [] action.type = "AUTH_FAILURE" ->
         [state EXCEPT !.user = Null, !.token = Null, !.isAuthenticated = FALSE,
                       !.isLoading = FALSE, !.error = action.payload]
    [] action.type = "AUTH_LOGOUT" ->
         [state EXCEPT !.isAuthenticated = FALSE, !.isLoading = FALSE, !.error = Null]
    [] action.type = "SET_LOADING" -> [state EXCEPT !.isLoading = action.payload]
    [] action.type = "CLEAR_ERROR" -> [state EXCEPT !.error = Null]
    [] OTHER -> state

\* authReducer(state, action) (part_000 lines 27-65)
authReducer(state, action) ==
  CASE action.type = "AUTH_START" ->
         [state EXCEPT !.isLoading = TRUE, !.error = Null]
    [] action.type = "AUTH_SUCCESS" ->
         [state EXCEPT !.user = action.payload.user, !.token = action.payload.token,
                       !.isAuthenticated = TRUE, !.isLoading = FALSE, !.error = Null]
    [] action.type = "AUTH_FAILURE" ->
         [state EXCEPT !.user = Null, !.token = Null, !.isAuthenticated = FALSE,
                       !.isLoading = FALSE, !.error = action.payload]
    [] action.type = "AUTH_LOGOUT" ->
         [state EXCEPT !.user = Null, !.token = Null, !.isAuthenticated = FALSE,
                       !.isLoading = FALSE, !.error = Null]
    [] action.type = "SET_LOADING" -> [state EXCEPT !.isLoading = action.payload]
    [] action.type = "CLEAR_ERROR" -> [state EXCEPT !.error = Null]
    [] OTHER -> state

\* the users and access tokens mockLogin, mockSignup and the stored session
\* supply; a user after restoreFromBackup has replaced the public key
AuthUsers == {"user", "user+key"}

AccessTokens == {"token-1", "token-2"}

\* dispatch(action): the next render's state is authReducer(state, action)
Dispatch(action) ==
  /\ NoContinuationPending
  /\ authState' = [authState EXCEPT !.state = authReducer(authState.state, action),
                                    !.last = action.type]
  /\ UNCHANGED <<now, conn, wire, handlerVars, storeVars, sessionRecords,
                 snd, inb, syn, hook, upd, imp, chat, kreq, appVars,
                 historyVars, del, view, typing>>

\* restoreFromBackup is called (part_000 line 322): the callback holds the
\* state.user and state.token of the render that created it
RestoreCapture ==
  /\ NoContinuationPending
  /\ authState.pc = "idle"
  /\ authState' = [authState EXCEPT !.pc = "restoring", !.captured = authState.state]
  /\ UNCHANGED <<now, conn, wire, handlerVars, storeVars, sessionRecords,
                 snd, inb, syn, hook, upd, imp, chat, kreq, appVars,
                 historyVars, del, view, typing>>

\* restoreFromBackup after storeKeyPair resolved (part_000 lines 338-350):
\* with a user in the captured state, AUTH_SUCCESS is dispatched with
\* the updated user and `state.token || ''`
RestoreDispatch ==
  /\ NoContinuationPending
  /\ authState.pc = "restoring"
  /\ authState' =
       IF authState.captured.user # Null
         THEN [authState EXCEPT
                 !.pc = "idle",
                 !.last = "AUTH_SUCCESS",
                 !.state = authReducer(authState.state,
                             [type |-> "AUTH_SUCCESS",
                              payload |->
                                [user |-> "user+key",
                                 token |-> IF authState.captured.token \in {Null, ""}
                                             THEN ""
                                             ELSE authState.captured.token]])]
         ELSE [authState EXCEPT !.pc = "idle", !.last = "none"]
  /\ UNCHANGED <<now, conn, wire, handlerVars, storeVars, sessionRecords,
                 snd, inb, syn, hook, upd, imp, chat, kreq, appVars,
                 historyVars, del, view, typing>>

\* ----------------------------------------------------------- useMessages ----
\* the hook's options: conversationId and pageSize
HookConversation == ConversationOf("bob")

PageSize == 2

\* indexeddb.getMessages(conversationId, limit, beforeTimestamp): the newest
\* `limit` envelopes among the candidates S, newest first
RECURSIVE NewestFirst(_, _, _)
NewestFirst(store, S, limit) ==
  IF S = {} \/ limit = 0 THEN <<>>
  ELSE LET x == CHOOSE a \in S : \A b \in S \ {a} :
                  \/ store[a].timestamp > store[b].timestamp
                  \/ store[a].timestamp = store[b].timestamp /\ IdLess(b, a)
       IN <<store[x]>> \o NewestFirst(store, S \ {x}, limit - 1)

\* getConversationMessages(conversationId, {limit, beforeTimestamp}): the
\* conversation's envelopes older than beforeTimestamp when it is given
GetConversationMessages(store, conversationId, limit, beforeTimestamp) ==
  NewestFirst(store,
              {id \in DOMAIN store :
                 /\ store[id].conversationId = conversationId
                 /\ beforeTimestamp # Undefined => store[id].timestamp < beforeTimestamp},
              limit)

\* storedToMessage(stored, currentUserId) (useMessages.ts lines 31-42)
storedToMessage(stored) ==
  [id |-> stored.id, conversationId |-> stored.conversationId,
   senderId |-> stored.senderId, timestamp |-> stored.timestamp,
   status |-> IF stored.synced THEN "delivered" ELSE "sending"]

MapStored(seq) == [k \in 1..Len(seq) |-> storedToMessage(seq[k])]

\* Array.prototype.sort((a, b) => a.timestamp - b.timestamp): ascending and
\* stable
RECURSIVE SortByTimestamp(_)
SortByTimestamp(seq) ==
  IF seq = <<>> THEN <<>>
  ELSE LET sorted == SortByTimestamp(SubSeq(seq, 1, Len(seq) - 1))
           x == seq[Len(seq)]
           k == Cardinality({n \in 1..Len(sorted) : sorted[n].timestamp <= x.timestamp})
       IN SubSeq(sorted, 1, k) \o <<x>> \o SubSeq(sorted, k + 1, Len(sorted))

\* Math.min(...stored.map(m => m.timestamp)) of a non-empty page
OldestOf(seq) ==
  CHOOSE t \in {seq[k].timestamp : k \in 1..Len(seq)} :
    \A k \in 1..Len(seq) : t <= seq[k].timestamp

\* refresh() and the auto-load effect (lines 159-173): the cursor is reset
\* and loadMessages runs up to getConversationMessages (lines 58-68)
Refresh ==
  /\ NoContinuationPending
  /\ view.pc = "idle"
  /\ StoreInit
  /\ view' = [view EXCEPT !.pc = "load", !.oldestTimestamp = Undefined,
                          !.hasMore = TRUE, !.isLoading = TRUE, !.error = Null]
  /\ UNCHANGED <<now, conn, wire, handlerVars, messages, pendingSync,
                 sessionRecords, snd, inb, syn, hook, upd, imp, chat, kreq,
                 appVars, historyVars, del, authState, typing>>

\* loadMessages after getConversationMessages resolved (lines 70-86)
LoadMessagesDone ==
  /\ NoContinuationPending
  /\ view.pc = "load"
  /\ LET stored == GetConversationMessages(messages, HookConversation, PageSize, Undefined)
     IN view' = [view EXCEPT
                   !.pc = "idle",
                   !.messages = SortByTimestamp(MapStored(stored)),
                   !.hasMore = (Len(stored) = PageSize),
                   !.oldestTimestamp = IF Len(stored) > 0 THEN OldestOf(stored) ELSE @,
                   !.isLoading = FALSE]
  /\ UNCHANGED <<now, conn, wire, handlerVars, storeVars, sessionRecords,
                 snd, inb, syn, hook, upd, imp, chat, kreq, appVars,
                 historyVars, del, authState, typing>>

\* loadMore up to getConversationMessages (lines 90-99); a call while
\* isLoading or with hasMore false returns at once
LoadMoreStart ==
  /\ NoContinuationPending
  /\ view.pc = "idle"
  /\ ~view.isLoading /\ view.hasMore
  /\ StoreInit
  /\ view' = [view EXCEPT !.pc = "more", !.isLoading = TRUE,
                          !.before = view.oldestTimestamp]
  /\ UNCHANGED <<now, conn, wire, handlerVars, messages, pendingSync,
                 sessionRecords, snd, inb, syn, hook, upd, imp, chat, kreq,
                 appVars, historyVars, del, authState, typing>>

\* loadMore after getConversationMessages resolved (lines 101-117)
LoadMoreDone ==
  /\ NoContinuationPending
  /\ view.pc = "more"
  /\ LET stored == GetConversationMessages(messages, HookConversation, PageSize,
                                           view.before)
     IN view' = IF Len(stored) = 0
                  THEN [view EXCEPT !.pc = "idle", !.hasMore = FALSE,
                                    !.isLoading = FALSE]
                  ELSE [view EXCEPT
                          !.pc = "idle",
                          !.messages = SortByTimestamp(MapStored(stored)) \o @,
                          !.hasMore = (Len(stored) = PageSize),
                          !.oldestTimestamp = OldestOf(stored),
                          !.isLoading = FALSE]
  /\ UNCHANGED <<now, conn, wire, handlerVars, storeVars, sessionRecords,
                 snd, inb, syn, hook, upd, imp, chat, kreq, appVars,
                 historyVars, del, authState, typing>>

\* addMessage(message) (lines 120-128)
ListAddMessage(message) ==
  /\ NoContinuationPending
  /\ view' = [view EXCEPT !.messages =
                IF \E k \in 1..Len(@) : @[k].id = message.id
                  THEN [k \in 1..Len(@) |-> IF @[k].id = message.id THEN message ELSE @[k]]
                  ELSE Append(@, message)]
  /\ UNCHANGED <<now, conn, wire, handlerVars, storeVars, sessionRecords,
                 snd, inb, syn, hook, upd, imp, chat, kreq, appVars,
                 historyVars, del, authState, typing>>

\* updateMessage(messageId, updates) (lines 131-135)
ListUpdateMessage(messageId, updates) ==
  /\ NoContinuationPending
  /\ view' = [view EXCEPT !.messages =
                [k \in 1..Len(@) |->
                   IF @[k].id = messageId THEN Spread(@[k], updates) ELSE @[k]]]
  /\ UNCHANGED <<now, conn, wire, handlerVars, storeVars, sessionRecords,
                 snd, inb, syn, hook, upd, imp, chat, kreq, appVars,
                 historyVars, del, authState, typing>>

\* deleteMessage(messageId) up to the store's delete transaction (line 140)
ListDeleteStart(messageId) ==
  /\ NoContinuationPending
  /\ view.deleting = NoId
  /\ StoreInit
  /\ view' = [view EXCEPT !.deleting = messageId]
  /\ UNCHANGED <<now, conn, wire, handlerVars, messages, pendingSync,
                 sessionRecords, snd, inb, syn, hook, upd, imp, chat, kreq,
                 appVars, historyVars, del, authState, typing>>

\* deleteMessage after messageStore.deleteMessage resolved (line 141)
ListDeleteDone ==
  /\ NoContinuationPending
  /\ view.deleting # NoId
  /\ messages' = Remove(messages, view.deleting)
  /\ view' = [view EXCEPT !.deleting = NoId,
                          !.messages = SelectSeq(@, LAMBDA m : m.id # view.deleting)]
  /\ UNCHANGED <<now, conn, wire, handlerVars, pendingSync, initialized,
                 syncInterval, sessionRecords, snd, inb, syn, hook, upd, imp,
                 chat, kreq, appVars, historyVars, del, authState, typing>>

\* --------------------------------------------------- useTypingIndicators ----
AutoClearMs == 3000

TypingTickMs == 1000

MaxTypingFrames == 3

MaxTypingTicks == 4

TypingConversations == {"conv-1"}

TypingUsers == {"user-1", "user-2"}

\* `${indicator.conversationId}-${indicator.userId}` (line 470)
TypingKey(conversationId, userId) == conversationId \o "-" \o userId

\* the updater the 'typing' handler passes to setTypingMap (lines 478-505),
\* run on the state st: an isTyping frame adds the user, starts the
\* auto-clear timer and records it in timeoutsRef
ApplyFrame(st, u) ==
  IF u.isTyping
    THEN [st EXCEPT
            !.typingMap = @ \cup {<<u.conversationId, u.userId>>},
            !.timers = Put(@, st.nextTimer,
                           [conversationId |-> u.conversationId, userId |-> u.userId,
                            deadline |-> st.now + AutoClearMs]),
            !.timeoutsRef = Put(@, TypingKey(u.conversationId, u.userId), st.nextTimer),
            !.nextTimer = @ + 1]
    ELSE [st EXCEPT !.typingMap = @ \ {<<u.conversationId, u.userId>>}]

\* the timer and the timeoutsRef entry an isTyping updater leaves behind
\* (lines 485-497), without its result
StartTimer(st, u) ==
  IF u.isTyping
    THEN [ApplyFrame(st, u) EXCEPT !.typingMap = st.typingMap]
    ELSE st

\* an updater React ran when setTypingMap was called: the render takes
\* the result it computed then
ApplyEager(st, u) ==
  IF u.isTyping
    THEN [st EXCEPT !.typingMap = @ \cup {<<u.conversationId, u.userId>>}]
    ELSE [st EXCEPT !.typingMap = @ \ {<<u.conversationId, u.userId>>}]

\* the updater of the auto-clear timer (lines 486-494)
ApplyClear(st, u) ==
  [st EXCEPT !.typingMap = @ \ {<<u.conversationId, u.userId>>}]

\* the queued updaters run in order on the state
RECURSIVE ApplyUpdaters(_, _)
ApplyUpdaters(st, queue) ==
  IF queue = <<>> THEN st
  ELSE ApplyUpdaters(CASE Head(queue).kind = "frame" -> ApplyFrame(st, Head(queue))
                       [] Head(queue).kind = "eager" -> ApplyEager(st, Head(queue))
                       [] OTHER -> ApplyClear(st, Head(queue)),
                     Tail(queue))

\* the 'typing' subscription (lines 468-506): the timeout recorded for the
\* key is cleared and the updater is handed to setTypingMap. React runs the
\* updater at the next render, or at once (eager) when the component has no
\* update pending
TypingFrame(conversationId, userId, isTyping, eager) ==
  /\ NoContinuationPending
  /\ typing.wsClient # 0
  /\ typing.frames < MaxTypingFrames
  /\ eager => typing.queue = <<>>
  /\ LET key == TypingKey(conversationId, userId)
         u == [kind |-> IF eager THEN "eager" ELSE "frame",
               conversationId |-> conversationId,
               userId |-> userId, isTyping |-> isTyping]
         cleared == [typing EXCEPT
                       !.timers = IF key \in DOMAIN typing.timeoutsRef
                                    THEN Remove(@, typing.timeoutsRef[key])
                                    ELSE @]
     IN typing' = [(IF eager THEN StartTimer(cleared, u) ELSE cleared) EXCEPT
                     !.queue = Append(@, u),
                     !.frames = @ + 1,
                     !.last = IF isTyping
                                THEN Put(@, <<conversationId, userId>>, typing.now)
                                ELSE @]
  /\ UNCHANGED <<now, conn, wire, handlerVars, storeVars, sessionRecords,
                 snd, inb, syn, hook, upd, imp, chat, kreq, appVars,
                 historyVars, del, authState, view>>

\* React renders the component: the queued updaters run, each on the
\* result of the one before
TypingRender ==
  /\ NoContinuationPending
  /\ typing.queue # <<>>
  /\ typing' = [ApplyUpdaters(typing, typing.queue) EXCEPT !.queue = <<>>]
  /\ UNCHANGED <<now, conn, wire, handlerVars, storeVars, sessionRecords,
                 snd, inb, syn, hook, upd, imp, chat, kreq, appVars,
                 historyVars, del, authState, view>>

\* an auto-clear timer fires (lines 485-495)
TypingTimerFires(id) ==
  /\ NoContinuationPending
  /\ id \in DOMAIN typing.timers
  /\ typing.timers[id].deadline <= typing.now
  /\ typing' = [typing EXCEPT
                  !.timers = Remove(@, id),
                  !.queue = Append(@, [kind |-> "clear",
                                       conversationId |-> typing.timers[id].conversationId,
                                       userId |-> typing.timers[id].userId,
                                       isTyping |-> FALSE])]
  /\ UNCHANGED <<now, conn, wire, handlerVars, storeVars, sessionRecords,
                 snd, inb, syn, hook, upd, imp, chat, kreq, appVars,
                 historyVars, del, authState, view>>

\* the wsClient argument changes: the effect's cleanup (lines 508-511)
\* unsubscribes and clears the timeouts of timeoutsRef, and the effect
\* subscribes to the new client; typingMap is state and stays
WsClientChanges ==
  /\ NoContinuationPending
  /\ typing.wsClient = 1
  /\ typing' = [typing EXCEPT
                  !.wsClient = 2,
                  !.timers = [id \in DOMAIN @ \ {typing.timeoutsRef[k] :
                                                   k \in DOMAIN typing.timeoutsRef}
                                |-> @[id]]]
  /\ UNCHANGED <<now, conn, wire, handlerVars, storeVars, sessionRecords,
                 snd, inb, syn, hook, upd, imp, chat, kreq, appVars,
                 historyVars, del, authState, view>>

\* Time passes for the hook: a render that is due and a timer that is due
\* come first
TypingTick ==
  /\ NoContinuationPending
  /\ typing.queue = <<>>
  /\ \A id \in DOMAIN typing.timers : typing.timers[id].deadline > typing.now
  /\ typing.now < MaxTypingTicks * TypingTickMs
  /\ typing' = [typing EXCEPT !.now = @ + TypingTickMs]
  /\ UNCHANGED <<now, conn, wire, handlerVars, storeVars, sessionRecords,
                 snd, inb, syn, hook, upd, imp, chat, kreq, appVars,
                 historyVars, del, authState, view>>

\* ---------------------------------------- MessageStoreManager.clearAll ----
\* clearAll up to `await clearAllData()` (lines 280-281)
ClearAllStart ==
  /\ NoContinuationPending
  /\ wipe.pc = "idle"
  /\ wipe' = [pc |-> "clearing"]
  /\ UNCHANGED <<now, conn, wire, handlerVars, storeVars, sessionRecords,
                 snd, inb, syn, hook, upd, imp, chat, kreq, swp, srch, auth,
                 identity, ui, historyVars, viewVars>>

\* clearAll after clearAllData resolved (lines 282-283): the index is
\* cleared and the flag reset; the interval is left as it is
ClearAllDone ==
  /\ NoContinuationPending
  /\ wipe.pc = "clearing"
  /\ ClearAllData
  /\ pendingSync' = Empty
  /\ initialized' = FALSE
  /\ wipe' = IdleWipe
  /\ UNCHANGED <<now, conn, wire, handlerVars, syncInterval, snd, inb, syn,
                 hook, upd, imp, chat, kreq, swp, srch, auth, ui, historyVars, viewVars>>

\* --------- MessageStoreManager.deleteMessage, deleteConversationMessages ----
\* indexeddb.getMessages(conversationId, limit): the conversation's envelopes
GetMessages(store, conversationId) ==
  [id \in {x \in DOMAIN store : store[x].conversationId = conversationId} |-> store[id]]

\* deleteMessage(messageId) up to its delete transaction (lines 141-147)
DeleteMessageStart(messageId) ==
  /\ NoContinuationPending
  /\ del.pc = "idle"
  /\ StoreInit
  /\ del' = [IdleDelete EXCEPT !.pc = "delete", !.messageId = messageId]
  /\ UNCHANGED <<now, conn, wire, handlerVars, messages, pendingSync,
                 sessionRecords, snd, inb, syn, hook, upd, imp, chat, kreq,
                 appVars, historyVars,
                 authState, view, typing>>

\* the delete transaction succeeded (lines 148-152): the record is gone, the
\* promise resolves with true; pendingSync is not touched
DeleteMessageDone ==
  /\ NoContinuationPending
  /\ del.pc = "delete"
  /\ messages' = Remove(messages, del.messageId)
  /\ del' = [IdleDelete EXCEPT !.deletedCount = 1]
  /\ UNCHANGED <<now, conn, wire, handlerVars, pendingSync, initialized,
                 syncInterval, sessionRecords, snd, inb, syn, hook, upd, imp,
                 chat, kreq, appVars, historyVars,
                 authState, view, typing>>

\* deleteConversationMessages(conversationId) up to getMessages (lines 158-160)
DeleteConversationStart(conversationId) ==
  /\ NoContinuationPending
  /\ del.pc = "idle"
  /\ StoreInit
  /\ del' = [IdleDelete EXCEPT !.pc = "list",
                               !.queue = GetMessages(messages, conversationId)]
  /\ UNCHANGED <<now, conn, wire, handlerVars, messages, pendingSync,
                 sessionRecords, snd, inb, syn, hook, upd, imp, chat, kreq,
                 appVars, historyVars,
                 authState, view, typing>>

\* the loop of deleteConversationMessages (lines 162-168) from one
\* deleteMessage to the next: the envelope at the head of the list is
\* deleted and counted
DeleteConversationStep ==
  /\ NoContinuationPending
  /\ del.pc = "list"
  /\ StoreInit
  /\ IF del.queue = Empty
       THEN /\ del' = [del EXCEPT !.pc = "idle"]
            /\ UNCHANGED messages
       ELSE LET id == FirstId(del.queue) IN
            /\ messages' = Remove(messages, id)
            /\ del' = [del EXCEPT !.queue = Remove(del.queue, id),
                                  !.deletedCount = @ + 1]
  /\ UNCHANGED <<now, conn, wire, handlerVars, pendingSync, sessionRecords,
                 snd, inb, syn, hook, upd, imp, chat, kreq, appVars, historyVars,
                 authState, view, typing>>

\* ------------------- MessageHandler: typing, presence, read_receipt ----
\* the 'typing' subscription (lines 537-546)
ReceiveTyping(userId) ==
  /\ NoContinuationPending
  /\ conn = "connected"
  /\ subscribed
  /\ ui' = [ui EXCEPT !.onTyping = userId]
  /\ UNCHANGED <<now, conn, wire, handlerVars, storeVars, sessionRecords,
                 snd, inb, syn, hook, upd, imp, chat, kreq, swp, wipe, srch,
                 auth, identity, historyVars, viewVars>>

\* the 'presence' subscription (lines 549-558)
ReceivePresence(userId) ==
  /\ NoContinuationPending
  /\ conn = "connected"
  /\ subscribed
  /\ ui' = [ui EXCEPT !.onPresence = userId]
  /\ UNCHANGED <<now, conn, wire, handlerVars, storeVars, sessionRecords,
                 snd, inb, syn, hook, upd, imp, chat, kreq, swp, wipe, srch,
                 auth, identity, historyVars, viewVars>>

\* A faulty variant of the read_receipt handler: a receipt for an unknown id
\* stores a new, read envelope under that id
ReceiveReadReceiptUpserts(messageId) ==
  /\ NoContinuationPending
  /\ conn = "connected"
  /\ subscribed
  /\ ui.pc = "idle"
  /\ StoreInit
  /\ IF messageId \in DOMAIN messages
       THEN /\ ui' = [ui EXCEPT !.pc = "store", !.messageId = messageId,
                                !.message = messages[messageId]]
            /\ messages' = messages
       ELSE /\ ui' = [ui EXCEPT !.onReadReceipt = messageId]
            /\ messages' = StoreMessage(messages,
                 [FullMessage(Envelope(messageId, InboundPayload(1)))
                    EXCEPT !.read = TRUE])
  /\ UNCHANGED <<now, conn, wire, handlerVars, pendingSync, sessionRecords,
                 snd, inb, syn, hook, upd, imp, chat, kreq, swp, wipe, srch,
                 auth, identity, historyVars, viewVars>>

\* The 'read_receipt' subscription (lines 561-567) up to the result of
\* updateMessage's getMessage (lines 120-127): for an unknown id
\* updateMessage returns null, markAsRead returns and onReadReceipt is
\* invoked; for a known id the envelope read is written back next
ReceiveReadReceipt(messageId) ==
  /\ NoContinuationPending
  /\ conn = "connected"
  /\ subscribed
  /\ ui.pc = "idle"
  /\ StoreInit
  /\ ui' = IF messageId \in DOMAIN messages
             THEN [ui EXCEPT !.pc = "store", !.messageId = messageId,
                             !.message = messages[messageId]]
             ELSE [ui EXCEPT !.onReadReceipt = messageId]
  /\ UNCHANGED <<now, conn, wire, handlerVars, messages, pendingSync,
                 sessionRecords, snd, inb, syn, hook, upd, imp, chat, kreq,
                 swp, wipe, srch, auth, identity, historyVars, viewVars>>

\* the read_receipt handler after updateMessage's storeMessage resolved
\* (lines 129-135): `{...message, read: true}` is stored, then
\* onReadReceipt is invoked (line 565)
ReadReceiptStore ==
  /\ NoContinuationPending
  /\ ui.pc = "store"
  /\ messages' = StoreMessage(messages, Spread(ui.message, [read |-> TRUE]))
  /\ ui' = [ui EXCEPT !.pc = "idle", !.messageId = NoId, !.message = Empty,
                      !.onReadReceipt = ui.messageId]
  /\ UNCHANGED <<now, conn, wire, handlerVars, pendingSync, initialized,
                 syncInterval, sessionRecords, snd, inb, syn, hook, upd, imp,
                 chat, kreq, swp, wipe, srch, auth, identity, historyVars, viewVars>>

\* ---------------------------------- MessageStoreManager.searchMessages ----
Queries == {"hello", "msg"}

Conversations == {"", "conv-bob", "conv-carol"}

\* A faulty variant of searchMessages: like the other methods it awaits
\* init() and returns the ids of the conversation's envelopes
SearchMessagesScansStore(query, conversationId) ==
  /\ NoContinuationPending
  /\ StoreInit
  /\ srch' = [query |-> query, conversationId |-> conversationId,
              result |-> IF \E id \in DOMAIN messages :
                               messages[id].conversationId = conversationId
                           THEN <<conversationId>> ELSE <<>>,
              stored |-> Cardinality(DOMAIN messages)]
  /\ UNCHANGED <<now, conn, wire, handlerVars, messages, pendingSync,
                 sessionRecords, snd, inb, syn, hook, upd, imp, chat, kreq,
                 swp, wipe, auth, identity, ui, historyVars, viewVars>>

\* searchMessages(query, options) (lines 267-275): no await, no store
\* access, the result is the empty list
SearchMessages(query, conversationId) ==
  /\ NoContinuationPending
  /\ srch' = [query |-> query, conversationId |-> conversationId,
              result |-> <<>>, stored |-> Cardinality(DOMAIN messages)]
  /\ UNCHANGED <<now, conn, wire, handlerVars, storeVars, sessionRecords,
                 snd, inb, syn, hook, upd, imp, chat, kreq, swp, wipe, auth,
                 identity, ui, historyVars, viewVars>>

\* -------------------------------- MessageStoreManager.processPendingSync ----
\* A faulty variant of the loop of processPendingSync: nothing is entered
TrackUnsyncedKnownOnly(index, unsynced) == index

\* the loop of processPendingSync (lines 219-226): unsynced envelopes the
\* index does not know are entered, known entries are left alone
TrackUnsynced(index, unsynced) ==
  [id \in DOMAIN index \cup DOMAIN unsynced |->
     IF id \in DOMAIN index THEN index[id] ELSE PendingMeta]

\* The interval callback of startSyncMonitor fires (lines 46-49) and
\* processPendingSync runs up to getUnsynced's `await this.init()`.  The
\* period of the interval is not followed by the model clock: the callback
\* may run at any moment while the interval is set.
SweepFire ==
  /\ NoContinuationPending
  /\ syncInterval
  /\ swp.pc = "idle"
  /\ StoreInit
  /\ swp' = [pc |-> "read"]
  /\ UNCHANGED <<now, conn, wire, handlerVars, messages, pendingSync,
                 sessionRecords, snd, inb, syn, hook, upd, imp, chat, kreq,
                 wipe, srch, auth, identity, ui, historyVars, viewVars>>

\* processPendingSync after getUnsyncedMessages resolved (lines 212-226)
SweepTrack ==
  /\ NoContinuationPending
  /\ swp.pc = "read"
  /\ pendingSync' = TrackUnsynced(pendingSync, GetUnsyncedMessages(messages))
  /\ swp' = IdleSweep
  /\ UNCHANGED <<now, conn, wire, handlerVars, messages, initialized,
                 syncInterval, sessionRecords, snd, inb, syn, hook, upd, imp,
                 chat, kreq, wipe, srch, auth, identity, ui, historyVars, viewVars>>

\* ------------------------------------------------------ time, process ----
\* Time passes while a key request is pending; a timer that is due fires
\* before time passes any further.
Tick ==
  /\ NoContinuationPending
  /\ timers # Empty
  /\ now < MaxTicks * TickMs
  /\ \A j \in DOMAIN timers : timers[j] > now
  /\ now' = now + TickMs
  /\ UNCHANGED <<conn, wire, handlerVars, storeVars, sessionRecords,
                 snd, inb, syn, hook, upd, imp, historyVars, chat, kreq, appVars, viewVars>>

\* sendMessage runs from the resolution of saveMessage to client.send
\* without suspending: no other callback runs in between.
Lifecycle ==
  \/ Initialize
  \/ Destroy

Handshaking ==
  \/ \E i \in SendIds : SendHandshake(i)
  \/ \E i \in SendIds : SendSaveSession(i)

Establishing ==
  \/ \E i \in SendIds, p \in Peers : GetOrCreateStart(i, p)
  \/ Handshaking

Sending ==
  \/ \E i \in SendIds, p \in Peers : SendStart(i, p)
  \/ Handshaking
  \/ \E i \in SendIds : SendEncrypt(i)
  \/ \E i \in SendIds : SendPersist(i)
  \/ \E i \in SendIds : SendTransmit(i)

KeyExchange ==
  \/ \E j \in InIds, m \in FrameIds : ReceiveMessage(j, m)
  \/ \E u \in Peers : ReceiveKeyResponse(u)
  \/ \E j \in InIds : TimerFires(j)
  \/ \E j \in InIds : InboundSaveNoSession(j)
  \/ Tick

Decrypting ==
  \/ \E j \in InIds : InboundDecrypt(j)
  \/ \E j \in InIds : InboundPersist(j)

Receiving == KeyExchange \/ Decrypting

Transport ==
  \/ \E k \in SyncIds : Connect(k)
  \/ Disconnect
  \/ \E k \in SyncIds : SyncRead(k)
  \/ \E k \in SyncIds : SyncMark(k)

\* a connection that stays up once it is up: the sync it starts finds the
\* store as it is at that moment
StableTransport ==
  \/ \E k \in SyncIds : Connect(k)
  \/ \E k \in SyncIds : SyncRead(k)
  \/ \E k \in SyncIds : SyncMark(k)

Hook ==
  \/ HookStart
  \/ HookRead
  \/ HookMark

Acknowledging == \E id \in DOMAIN messages : ReceiveAck(id)

KeyRequests ==
  \/ \E requester \in Peers, target \in Targets : ReceiveKeyRequest(requester, target)
  \/ KeyRequestRespond

Chatting ==
  \/ ChatSendStart
  \/ ChatSendPersist
  \/ ChatSendDone

Authenticating ==
  \/ \E k \in KeyPairs, pw \in Passwords : SignupStart(k, pw)
  \/ SignupStore
  \/ LogoutStart
  \/ LogoutDone

Restoring ==
  \/ \E b \in Backups, pw \in Passwords : RestoreStart(b, pw)
  \/ RestoreDecrypt
  \/ RestoreStore

Wiping ==
  \/ ClearAllStart
  \/ ClearAllDone

\* the actions the provider's handlers dispatch: login, signup and the
\* social logins (part_000 lines 210-288), logout and the refresh check
\* (198, 295), clearError (299), initAuth (173-178)
Dispatching ==
  \/ \E t \in {"AUTH_START", "AUTH_LOGOUT", "CLEAR_ERROR"} : Dispatch([type |-> t])
  \/ Dispatch([type |-> "SET_LOADING", payload |-> FALSE])
  \/ Dispatch([type |-> "AUTH_FAILURE", payload |-> "Login failed"])
  \/ \E u \in AuthUsers, t \in AccessTokens :
       Dispatch([type |-> "AUTH_SUCCESS", payload |-> [user |-> u, token |-> t]])
  \/ RestoreCapture
  \/ RestoreDispatch

\* the messages the consumer of useMessages adds: a stored envelope as the
\* chat view shows it
ViewMessages ==
  {[storedToMessage(messages[id]) EXCEPT !.status = "sent"] :
     id \in {x \in DOMAIN messages : messages[x].conversationId = HookConversation}}

Viewing ==
  \/ Refresh
  \/ LoadMessagesDone
  \/ LoadMoreStart
  \/ LoadMoreDone
  \/ \E m \in ViewMessages : ListAddMessage(m)
  \/ \E id \in DOMAIN messages : ListUpdateMessage(id, [status |-> "read"])
  \/ \E id \in DOMAIN messages : ListDeleteStart(id)
  \/ ListDeleteDone

TypingIndicators ==
  \/ \E c \in TypingConversations, u \in TypingUsers, t \in BOOLEAN, eager \in BOOLEAN :
       TypingFrame(c, u, t, eager)
  \/ TypingRender
  \/ \E id \in 1..MaxTypingFrames : TypingTimerFires(id)
  \/ WsClientChanges
  \/ TypingTick

Importing ==
  \/ \E batch \in ImportBatches : ImportMessages(batch)
  \/ ImportGet
  \/ ImportStore

SessionStoreFailing == \E i \in SendIds : SendSaveSessionFails(i)

Deleting ==
  \/ \E id \in DOMAIN messages \cup {NoId} : DeleteMessageStart(id)
  \/ DeleteMessageDone
  \/ \E c \in Conversations : DeleteConversationStart(c)
  \/ DeleteConversationStep

Sweeping ==
  \/ SweepFire
  \/ SweepTrack

Searching == \E q \in Queries, c \in Conversations : SearchMessages(q, c)

\* the user a typing or presence frame is about
UiUsers == {"bob"}

UiFrames ==
  \/ \E u \in UiUsers : ReceiveTyping(u)
  \/ \E u \in UiUsers : ReceivePresence(u)
  \/ \E id \in DOMAIN messages \cup {NoId} : ReceiveReadReceipt(id)
  \/ ReadReceiptStore

Storing ==
  \/ \E id \in DOMAIN messages \cup {NoId}, u \in Updates : UpdateMessage(id, u)
  \/ \E id \in DOMAIN messages : MarkAsRead(id)
  \/ UpdateMessageStore
  \/ \E batch \in ImportBatches : ImportMessages(batch)
  \/ ImportGet
  \/ ImportStore

\* One callback of the program at a time.  The process may stop in any state
\* (a crash, the tab closed): what is in messages and sessionRecords then is
\* what survives.
Next ==
  \/ Lifecycle
  \/ \E i \in SendIds, p \in Peers : GetOrCreateStart(i, p)
  \/ Sending
  \/ Receiving
  \/ Transport
  \/ Hook
  \/ Acknowledging
  \/ Storing
  \/ Chatting
  \/ KeyRequests
  \/ Authenticating
  \/ Restoring
  \/ Wiping
  \/ Sweeping
  \/ Searching
  \/ UiFrames
  \/ Deleting
  \/ SessionStoreFailing
  \/ Dispatching
  \/ Viewing
  \/ TypingIndicators

Spec == Init /\ [][Next]_vars

\* The environment restricted to composing messages: the application
\* sends, the connection comes and goes.
NextSend == Lifecycle \/ Sending \/ Transport

SpecSend == Init /\ [][NextSend]_vars

\* The environment restricted to composing and resending while the handler
\* lives: destroy() is not called.
NextResend == Initialize \/ Sending \/ Transport

SpecResend == Init /\ [][NextResend]_vars

\* The environment restricted to sessions: the application sends and asks
\* for sessions, initialize and destroy are called; the connection stays
\* down.
NextSessions == Lifecycle \/ Establishing \/ Sending

SpecSessions == Init /\ [][NextSessions]_vars

\* The environment restricted to answering key requests over a stable
\* connection: peers ask for keys, sessions are established through
\* getOrCreateSession, initialize and destroy are called.  Nothing is stored
\* here, so the synchronisation at connect finds nothing to mark.
NextKeyRequests ==
  \/ Lifecycle
  \/ Establishing
  \/ KeyRequests
  \/ \E k \in SyncIds : Connect(k)
  \/ \E k \in SyncIds : SyncRead(k)

SpecKeyRequests == Init /\ [][NextKeyRequests]_vars

\* The environment restricted to receiving over a stable connection: the
\* relay delivers 'message' and 'key_response' frames, time passes, sessions
\* are established through getOrCreateSession.
NextInbound == Lifecycle \/ Establishing \/ Receiving \/ StableTransport

SpecInbound == Init /\ [][NextInbound]_vars

\* The environment restricted to the key exchange over a stable connection:
\* no session is ever established, so every inbound 'message' frame asks for
\* its sender's key.
NextKeys == Lifecycle \/ KeyExchange \/ StableTransport

SpecKeys == Init /\ [][NextKeys]_vars

\* The environment restricted to synchronisation: the application sends,
\* the connection comes and goes, the relay acknowledges, the
\* useMessageSync hook runs.
NextSync == Initialize \/ Sending \/ Transport \/ Hook \/ Acknowledging

SpecSync == Init /\ [][NextSync]_vars

\* The environment restricted to the store: the application sends, updates,
\* marks as read and imports history; a connection that comes up runs its
\* sync.
NextStore == Initialize \/ Sending \/ Storing

SpecStore == Init /\ [][NextStore]_vars

\* The environment restricted to the two send paths: MessageHandler.sendMessage
\* and ChatProvider.sendMessage, the connection coming and going.
NextChat == Initialize \/ Sending \/ Chatting \/ Transport

SpecChat == Init /\ [][NextChat]_vars

\* The environment restricted to the wipe of the local data: the application
\* sends (which fills the stores), the user signs up and logs out, clearAll
\* is called, the periodic sweep runs.
NextWipe == Initialize \/ Sending \/ Authenticating \/ Wiping \/ Sweeping

SpecWipe == Init /\ [][NextWipe]_vars

\* The environment restricted to sessions with a SessionStore whose writes
\* may fail.
NextEstablish == Lifecycle \/ Establishing \/ Sending \/ SessionStoreFailing

SpecEstablish == Init /\ [][NextEstablish]_vars

\* The environment restricted to the import of the server's history while
\* the relay delivers frames: the connection comes up, 'message' and
\* 'key_response' frames arrive and their envelopes are stored.
NextImport ==
  \/ Initialize
  \/ \E k \in SyncIds : Connect(k)
  \/ KeyExchange
  \/ Importing

SpecImport == Init /\ [][NextImport]_vars

\* The environment restricted to the auth reducer: the provider's handlers
\* dispatch their actions in any order.
NextReducer == Dispatching

SpecReducer == Init /\ [][NextReducer]_vars

\* The environment restricted to the message list of a conversation view:
\* the application sends, which fills the store, and the view loads,
\* adds, updates and deletes.
NextView == Initialize \/ Sending \/ Viewing

SpecView == Init /\ [][NextView]_vars

\* The environment restricted to the typing indicators: typing frames
\* arrive, React renders, timers fire, the client changes, time passes.
NextTyping == TypingIndicators

SpecTyping == Init /\ [][NextTyping]_vars

\* The environment restricted to deletion: the application sends, which
\* fills the store and the index, and deletes messages and conversations.
NextDelete == Initialize \/ Sending \/ Deleting

SpecDelete == Init /\ [][NextDelete]_vars

\* The environment restricted to the periodic sweep: the application sends
\* and marks as read, a connection that comes up runs its sync, which marks
\* envelopes synced, and the interval callback runs.
NextSweep ==
  \/ Initialize
  \/ Sending
  \/ StableTransport
  \/ \E id \in DOMAIN messages : MarkAsRead(id)
  \/ UpdateMessageStore
  \/ Sweeping

SpecSweep == Init /\ [][NextSweep]_vars

\* The environment restricted to the delivery of inbound messages over a
\* connection that is up: sessions are established through
\* getOrCreateSession, 'message' frames arrive and those of peers with a
\* session are decrypted, stored, delivered and acknowledged.
NextDeliver ==
  \/ Initialize
  \/ Establishing
  \/ \E k \in SyncIds : Connect(k)
  \/ \E j \in InIds, m \in FrameIds : ReceiveMessage(j, m)
  \/ Decrypting

SpecDeliver == Init /\ [][NextDeliver]_vars

\* The environment restricted to the account: signup, logout, restore from
\* a backup file, with the chat view storing envelopes.
NextAuth == Authenticating \/ Restoring \/ Chatting

SpecAuth == Init /\ [][NextAuth]_vars

\* The environment restricted to the UI frames over a stable connection:
\* sessions are established through getOrCreateSession, the chat view
\* stores envelopes, 'message' frames
\* arrive and those of unknown senders leave key requests pending, the relay
\* delivers typing, presence and read_receipt frames.
NextUi ==
  \/ Initialize
  \/ Establishing
  \/ Chatting
  \/ \E k \in SyncIds : Connect(k)
  \/ \E j \in InIds, m \in FrameIds : ReceiveMessage(j, m)
  \/ UiFrames

SpecUi == Init /\ [][NextUi]_vars

\* The environment restricted to searching a store that sendMessage fills.
NextSearch == Initialize \/ Sending \/ Searching

SpecSearch == Init /\ [][NextSearch]_vars

\* ---------------------------------------------------------------------------
\* Claims
\* ---------------------------------------------------------------------------
SendCalls == {i \in SendIds : snd[i].op = "sendMessage"}

CallsTo(p) == {i \in SendCalls : snd[i].to = p /\ snd[i].session # 0}

\* C1: as long as destroy() has not been called, establishSecureSession is
\* invoked at most once per peer, however the sendMessage calls to that peer
\* overlap, and all of them encrypt with the same session.
C1_OneHandshakePerPeer ==
  subscribed =>
    \A p \in Peers :
      /\ handshakes[p] <= 1
      /\ \A i, k \in CallsTo(p) : snd[i].session = snd[k].session

\* the inbound calls that asked for the key of user u
RequestsFor(u) == {j \in InIds : inb[j].frame # 0 /\ FrameSender(inb[j].frame) = u
                                 /\ inb[j].session = 0}

\* the key_request frames for user u among the frames w
KeyRequestsIn(w, u) ==
  CopiesIn([type |-> "key_request",
            payload |-> [requesterId |-> Me, targetUserId |-> u]], w)
  + CopiesIn([type |-> "key_request",
              payload |-> [requesterId |-> NoUser, targetUserId |-> u]], w)

\* the key_request frames for user u the transport has accepted
KeyRequestsOnWire(u) == KeyRequestsIn(wire, u)

\* C2: while no key request for a user has been resolved or has timed out,
\* one key_request frame for that user has been transmitted and one timeout
\* timer for that user exists, however many times the key was requested.
C2_OneRequestInFlight ==
  \A u \in Peers :
    (\A j \in RequestsFor(u) : inb[j].pc = "awaitKey") =>
      /\ KeyRequestsOnWire(u) <= 1
      /\ Cardinality({j \in DOMAIN timers : j \in RequestsFor(u)}) <= 1

\* the stored envelopes that hold the ciphertext of inbound frame m
EnvelopesOf(m) ==
  {id \in DOMAIN messages : messages[id].ciphertext = InboundPayload(m).ciphertext}

\* C3: an inbound 'message' frame from a sender without a cached session is
\* persisted with its ciphertext once its handler has finished, also when the
\* key request timed out (a failing store set aside).
C3_NoSessionFramePersisted ==
  \A j \in InIds :
    (inb[j].pc = "done" /\ inb[j].session = 0 /\ inb[j].outcome # "storeFailed") =>
      EnvelopesOf(inb[j].frame) # {}

\* C4: a pending key request is never older than 10,000 ms; the step in
\* which it times out comes no earlier than 10,000 ms after the request,
\* rejects it and leaves no pending entry for its user; and every request
\* registers itself as the pending entry of its user, starts a timer of
\* 10,000 ms and transmits one more key_request frame.
C4_TimeoutRemovesPending ==
  [][\A j \in InIds :
       /\ inb'[j].pc = "awaitKey" => now' <= inb'[j].since + KeyRequestTimeoutMs
       /\ (inb[j].pc = "awaitKey" /\ inb'[j].outcome = "timeout") =>
            /\ now >= inb[j].since + KeyRequestTimeoutMs
            /\ inb'[j].pc = "done"
            /\ j \notin DOMAIN timers'
            /\ FrameSender(inb[j].frame) \notin DOMAIN pendingKeyRequests'
       /\ (inb[j].pc = "idle" /\ inb'[j].pc = "awaitKey") =>
            LET u == FrameSender(inb'[j].frame) IN
            /\ u \in DOMAIN pendingKeyRequests'
            /\ pendingKeyRequests'[u] = j
            /\ j \in DOMAIN timers'
            /\ timers'[j] = now + KeyRequestTimeoutMs
            /\ KeyRequestsIn(wire', u) = KeyRequestsIn(wire, u) + 1]_vars

\* a request timed out and a later request for the same user is pending
C4_Witness ==
  \E j, k \in InIds :
    /\ inb[j].outcome = "timeout"
    /\ inb[k].pc = "awaitKey"
    /\ FrameSender(inb[j].frame) = FrameSender(inb[k].frame)
    /\ FrameSender(inb[k].frame) \in DOMAIN pendingKeyRequests
    /\ pendingKeyRequests[FrameSender(inb[k].frame)] = k
    /\ KeyRequestsOnWire(FrameSender(inb[k].frame)) = 2

\* C5: however often the same inbound 'message' frame is processed, one
\* envelope is stored for it and onMessage is invoked once for it.
C5_InboundIdempotent ==
  \A m \in FrameIds :
    /\ onMessageCalls[m] <= 1
    /\ Cardinality(EnvelopesOf(m)) <= 1

\* every envelope of `due` has one more frame on the wire than `before`
Retransmitted(due, before) ==
  \A id \in DOMAIN due : CopiesIn(ResendFrame(due[id]), wire) > before[id]

C7_SyncedOnlyAfterAck ==
  [][\A id \in DOMAIN messages :
       (id \in DOMAIN messages' /\ ~messages[id].synced /\ messages'[id].synced)
         => id \in acks]_vars

\* the frame sendMessage call i hands to the transport
FrameOfCall(i) == MessageFrame(OutboundPayload(i))

\* C8: a sendMessage call that has stored its envelope and not yet called
\* client.send (the state a stop between the two steps leaves behind) finds
\* the envelope in the store, unsynced and with the composed ciphertext; no
\* frame of a call is on the wire before the call has passed that point; and
\* the envelope of every frame handed to the transport is in the store with
\* the frame's ciphertext.
C8_StoredBeforeTransmit ==
  \A i \in SendCalls :
    /\ snd[i].pc = "transmit" =>
         /\ snd[i].id \in DOMAIN messages
         /\ ~messages[snd[i].id].synced
         /\ messages[snd[i].id].ciphertext = snd[i].ct
    /\ snd[i].pc \in {"persist", "transmit"} => ~BagIn(FrameOfCall(i), wire)
    /\ BagIn(FrameOfCall(i), wire) =>
         /\ snd[i].id \in DOMAIN messages
         /\ messages[snd[i].id].ciphertext = snd[i].ct

\* a sendMessage call has handed its frame to the transport and its envelope
\* is in the store
C8_Witness ==
  \E i \in SendCalls :
    /\ snd[i].status = "sent"
    /\ BagIn(FrameOfCall(i), wire)
    /\ snd[i].id \in DOMAIN messages
    /\ ~messages[snd[i].id].synced

\* C9: when decryption of an inbound frame fails, the frame's envelope is in
\* the store with its ciphertext.
C9_StoredBeforeDecrypt ==
  \A j \in InIds :
    inb[j].outcome = "decryptFailed" => EnvelopesOf(inb[j].frame) # {}

\* C10: no step changes the ciphertext stored under an id.
C10_CiphertextWriteOnce ==
  [][\A id \in DOMAIN messages :
       id \in DOMAIN messages' => messages'[id].ciphertext = messages[id].ciphertext]_vars

\* C11: the step in which sendMessage calls client.send and returns reports
\* 'sent' exactly when the transport accepted the frame and 'sending'
\* otherwise, and in both cases leaves the composed envelope in the store,
\* unsynced and with the composed ciphertext.
C11_StatusReflectsTransmission ==
  [][\A i \in SendIds :
       (snd[i].pc = "transmit" /\ snd'[i].pc = "done") =>
         /\ snd'[i].status \in {"sent", "sending"}
         /\ snd'[i].status = "sent" <=>
              CopiesIn(FrameOfCall(i), wire') = CopiesIn(FrameOfCall(i), wire) + 1
         /\ snd'[i].status = "sending" <=> wire' = wire
         /\ snd[i].id \in DOMAIN messages'
         /\ ~messages'[snd[i].id].synced
         /\ messages'[snd[i].id].ciphertext = snd[i].ct]_vars

\* a sendMessage call has returned 'sending': its frame was refused and its
\* envelope is in the store, unsynced
C11_Witness ==
  \E i \in SendCalls :
    /\ snd[i].pc = "done"
    /\ snd[i].status = "sending"
    /\ ~BagIn(FrameOfCall(i), wire)
    /\ snd[i].id \in DOMAIN messages
    /\ ~messages[snd[i].id].synced

\* C12: no send path reports a message as 'sent' while its envelope was not
\* stored: a sendMessage call whose saveMessage failed ends failed, and a
\* message shown as 'sent' has its envelope in the store.
C12_SentOnlyIfStored ==
  /\ \A i \in SendCalls : snd[i].status = "sent" => snd[i].id \in DOMAIN messages
  /\ chat.status = "sent" => chat.stored

\* C13: once destroy() has been called, no key-request timer is left to fire
\* and no requestPublicKey promise is left unsettled.
C13_DestroyCancelsKeyRequests ==
  ~subscribed =>
    /\ timers = Empty
    /\ \A j \in InIds : inb[j].pc # "awaitKey"

\* C14: the session cache holds sessions of peers only, one per peer, and
\* the step that caches a newly established session puts it under its peer
\* in place of whatever was cached there, leaving the other peers' sessions
\* as they were.
C14_OneSessionPerPeer ==
  [][/\ DOMAIN sessions' \subseteq Peers
     /\ \A i \in SendIds :
          (snd[i].pc = "handshake" /\ snd'[i].pc = "saveSession") =>
            /\ DOMAIN sessions' = DOMAIN sessions \cup {snd[i].to}
            /\ sessions'[snd[i].to] = snd'[i].session
            /\ \A p \in DOMAIN sessions \ {snd[i].to} : sessions'[p] = sessions[p]]_vars

\* two handshakes for one peer have completed and the later session has
\* replaced the earlier one in the cache
C14_Witness ==
  \E p \in Peers :
    /\ subscribed
    /\ handshakes[p] = 2
    /\ snd[1].to = p /\ snd[1].session = 1
    /\ snd[2].to = p /\ snd[2].session = 2
    /\ p \in DOMAIN sessions
    /\ sessions[p] = 2

\* the publicKey and fingerprint call i supplies: every call its own
SuppliedKey(i) == i

\* the publicKey and fingerprint a session was established with: those of
\* the call that established it
SessionKey(session) == session

\* C15: a getOrCreateSession call for a peer with a cached session returns
\* that session at once, whatever key it supplies, invokes no handshake and
\* leaves the cache and the SessionStore as they are.
C15_CachedSessionReturnedUnchanged ==
  [][\A i \in SendIds :
       (/\ snd[i].pc = "idle"
        /\ snd'[i].op = "getOrCreateSession"
        /\ snd'[i].to \in DOMAIN sessions) =>
         /\ snd'[i].pc = "done"
         /\ snd'[i].session = sessions[snd'[i].to]
         /\ sessions' = sessions
         /\ handshakes' = handshakes
         /\ sessionRecords' = sessionRecords]_vars

\* a getOrCreateSession call has been given a cached session that was
\* established with another key than the one it supplied
C15_Witness ==
  \E i \in SendIds :
    /\ snd[i].op = "getOrCreateSession"
    /\ snd[i].pc = "done"
    /\ snd[i].session # 0
    /\ SessionKey(snd[i].session) # SuppliedKey(i)
    /\ handshakes[snd[i].to] = 1

\* C16: in the step in which establishSession returns (destroy() not having
\* been called), the returned session is the one cached under its peer and
\* its record is in the SessionStore.
C16_ReturnedSessionIsCached ==
  [][\A i \in SendIds :
       (snd[i].pc = "saveSession" /\ snd'[i].pc # "saveSession" /\ subscribed) =>
         /\ snd[i].to \in DOMAIN sessions'
         /\ sessions'[snd[i].to] = snd[i].session
         /\ snd[i].session \in DOMAIN sessionRecords'
         /\ sessionRecords'[snd[i].session] = snd[i].to]_vars

\* C17: a key_request is taken up exactly when the handler has a key pair
\* and the request names the local user; a request that is not taken up
\* sends nothing and changes nothing; a request taken up is answered, while
\* the handler still has its key pair, with one key_response carrying the
\* local public key and fingerprint; sessions play no part.
C17_KeyRequestAnsweredIffForMe ==
  [][/\ (kreq.pc \in {"idle", "done"} /\ kreq'.pc \in {"respond", "done"}
         /\ kreq' # kreq) =>
          /\ kreq'.pc = "respond" <=> (myKeyPair /\ kreq'.target = myUserId)
          /\ kreq'.pc = "done" => kreq'.outcome = "ignored"
          /\ wire' = wire
          /\ <<handlerVars, storeVars, sessionRecords>>' =
               <<handlerVars, storeVars, sessionRecords>>
     /\ (kreq.pc = "respond" /\ kreq'.pc = "done") =>
          /\ kreq'.outcome = "responded" <=> myKeyPair
          /\ (myKeyPair /\ conn = "connected") =>
               /\ KeyResponseFrame.payload.userId = Me
               /\ KeyResponsesIn(wire') = KeyResponsesIn(wire) + 1
          /\ <<handlerVars, storeVars, sessionRecords>>' =
               <<handlerVars, storeVars, sessionRecords>>
     /\ kreq' = kreq => KeyResponsesIn(wire') = KeyResponsesIn(wire)]_vars

\* a key_request of a peer the handler has no session with has been answered
C17_Witness ==
  /\ kreq.outcome = "responded"
  /\ kreq.target = Me
  /\ kreq.requester \notin DOMAIN sessions
  /\ handshakes[kreq.requester] = 0
  /\ BagIn(KeyResponseFrame, wire)

\* the requests a step resolves: they leave the wait for the key and go on to
\* save the envelope
ResolvedBy(before, after) ==
  {j \in InIds : before[j].pc = "awaitKey" /\ after[j].pc = "saveNoSession"}

\* C18: a step resolves at most one key request, and then it is the request
\* registered under the answering user: exactly that entry and that request's
\* timer are removed and no other request is touched; a step that resolves
\* nothing, arms or fires no timer and is not destroy leaves the pending
\* requests as they are; a request that has left the wait never waits again,
\* so it is resolved at most once.
C18_KeyResponseResolvesOnlyItsRequest ==
  [][/\ Cardinality(ResolvedBy(inb, inb')) <= 1
     /\ \A j \in InIds :
          (inb[j].pc = "awaitKey" /\ inb'[j].pc = "saveNoSession") =>
            /\ FrameSender(inb[j].frame) \in DOMAIN pendingKeyRequests
            /\ pendingKeyRequests[FrameSender(inb[j].frame)] = j
            /\ pendingKeyRequests' =
                 Remove(pendingKeyRequests, FrameSender(inb[j].frame))
            /\ timers' = Remove(timers, j)
            /\ \A k \in InIds \ {j} : inb'[k] = inb[k]
            /\ <<wire, sessions, storeVars, sessionRecords>>' =
                 <<wire, sessions, storeVars, sessionRecords>>
     /\ (ResolvedBy(inb, inb') = {} /\ timers' = timers /\ subscribed') =>
          pendingKeyRequests' = pendingKeyRequests
     /\ \A j \in InIds :
          inb[j].pc \notin {"idle", "awaitKey"} =>
            inb'[j].pc \notin {"awaitKey", "saveNoSession"} \/ inb'[j] = inb[j]]_vars

\* bob's request has been resolved by bob's key_response while carol's
\* request is still pending with its timer
C18_Witness ==
  \E j, k \in InIds :
    /\ inb[j].pc = "saveNoSession"
    /\ FrameSender(inb[j].frame) = "bob"
    /\ "bob" \notin DOMAIN pendingKeyRequests
    /\ j \notin DOMAIN timers
    /\ inb[k].pc = "awaitKey"
    /\ "carol" \in DOMAIN pendingKeyRequests
    /\ pendingKeyRequests["carol"] = k
    /\ k \in DOMAIN timers

\* the handleEncryptedMessage calls that saved their envelope
SavedInbound == {j \in InIds : inb[j].outcome \in {"stored", "delivered"}}

\* C19: two distinct inbound messages whose handlers saved them are stored
\* under distinct envelope ids, and both envelopes are in the store.
C19_DistinctInboundDistinctIds ==
  \A j, k \in SavedInbound :
    inb[j].frame # inb[k].frame =>
      /\ inb[j].id # inb[k].id
      /\ EnvelopesOf(inb[j].frame) # {}
      /\ EnvelopesOf(inb[k].frame) # {}

\* C20: inbound 'message' frames are processed in the order of receipt (the
\* calls of handleEncryptedMessage are numbered in that order): when a
\* later frame's envelope has been saved, the handler of every earlier,
\* different frame has finished.
C20_InboundInReceiptOrder ==
  \A j, k \in InIds :
    (j < k /\ k \in SavedInbound /\ inb[j].frame # inb[k].frame) =>
      inb[j].pc = "done"

\* C21: when logout completes, no envelope and no session is left in the
\* durable stores and the pending-sync index of the message store is empty.
C21_LogoutWipesEverything ==
  [][(auth.pc = "logout" /\ auth'.pc = "idle") =>
       /\ messages' = Empty
       /\ sessionRecords' = Empty
       /\ pendingSync' = Empty]_vars

\* C22: the periodic sweep fires only on an initialized store and not after
\* a logout: clearAll and logout cancel the interval.
C22_NoSweepAfterWipe ==
  [][(swp.pc = "idle" /\ swp'.pc = "read") =>
       /\ initialized
       /\ auth.outcome # "loggedOut"]_vars

\* C23: a searchMessages call, whatever its query and options, returns the
\* empty list and leaves the stored envelopes, the pending-sync index, the
\* initialized flag and the sweep interval as they are.
C23_SearchReturnsNothing ==
  [][srch' # srch =>
       /\ srch'.result = <<>>
       /\ <<messages, pendingSync, initialized, syncInterval>>' =
            <<messages, pendingSync, initialized, syncInterval>>]_vars

\* a conversation that holds an envelope has been searched
C23_Witness ==
  /\ srch.query # ""
  /\ srch.result = <<>>
  /\ srch.stored > 0
  /\ \E id \in DOMAIN messages :
       messages[id].conversationId = srch.conversationId

C25_WrongPasswordChangesNothing ==
  [][/\ (auth.pc = "idle" /\ auth'.pc = "restore") =>
          /\ auth'.currentKeyPair = auth.currentKeyPair
          /\ auth'.user = auth.user
          /\ auth'.storedUser = auth.storedUser
          /\ identity' = identity
     /\ (auth.pc = "restore" /\ auth' # auth
            /\ auth.password # auth.backup.password) =>
          /\ auth'.pc = "idle"
          /\ auth'.outcome = "restoreFailed"
          /\ auth'.currentKeyPair = auth.currentKeyPair
          /\ auth'.user = auth.user
          /\ auth'.storedUser = auth.storedUser
          /\ identity' = identity
     /\ auth'.outcome = "restored" =>
          (auth.outcome = "restored" \/ auth.password = auth.backup.password)]_vars

\* a signed-up user's restore of another key pair's backup has failed: the
\* current key pair, the identity record and the user are the old ones
C25_Witness ==
  /\ auth.outcome = "restoreFailed"
  /\ auth.currentKeyPair = 1
  /\ auth.user = 1
  /\ "identity" \in DOMAIN identity
  /\ identity["identity"].publicKey = 1

\* C26: once the key_response for the sender of a session-less inbound frame
\* has arrived at an initialized handler, and while that handler is not
\* destroyed, a session with that sender is in the cache and a record of it in the SessionStore.
C26_KeyResponseEstablishesSession ==
  \A j \in InIds :
    (subscribed /\ myKeyPair /\ inb[j].session = 0
       /\ (inb[j].pc = "saveNoSession" \/ inb[j].outcome = "stored")) =>
      /\ FrameSender(inb[j].frame) \in DOMAIN sessions
      /\ \E sid \in DOMAIN sessionRecords :
           sessionRecords[sid] = FrameSender(inb[j].frame)

\* the message_ack frames the transport has accepted, among the frames w
AcksIn(w) ==
  LET F == {f \in DOMAIN w : f.type = "message_ack"}
      Sum[S \in SUBSET F] ==
        IF S = {} THEN 0
        ELSE LET f == CHOOSE x \in S : TRUE IN w[f] + Sum[S \ {f}]
  IN Sum[F]

\* C27: onMessage is invoked for a frame only in the step in which the
\* frame's envelope, built after the decryption, has been saved under the
\* record's id; in that same step, after onMessage, one message_ack with
\* that id and status 'delivered' is handed to the transport; no other step
\* invokes onMessage or sends a message_ack, so a frame that failed to
\* decrypt or to be saved gets neither.
C27_DeliverAfterPersist ==
  [][/\ \A j \in InIds :
          (inb[j].pc = "persist" /\ inb'[j].outcome = "delivered") =>
            /\ inb[j].id = MsgId(InboundPayload(inb[j].frame).timestamp, 0)
            /\ inb[j].id \in DOMAIN messages'
            /\ messages'[inb[j].id] = FullMessage(InboundEnvelope(j))
            /\ onMessageCalls'[inb[j].frame] = onMessageCalls[inb[j].frame] + 1
            /\ AckFrame(inb[j].id).payload.status = "delivered"
            /\ conn = "connected" =>
                 CopiesIn(AckFrame(inb[j].id), wire') =
                   CopiesIn(AckFrame(inb[j].id), wire) + 1
     /\ (onMessageCalls' # onMessageCalls \/ AcksIn(wire') # AcksIn(wire)) =>
          \E j \in InIds :
            /\ inb[j].pc = "persist" /\ inb'[j].outcome = "delivered"
            /\ \A m \in FrameIds \ {inb[j].frame} :
                 onMessageCalls'[m] = onMessageCalls[m]
            /\ AcksIn(wire') <= AcksIn(wire) + 1
     /\ \A j \in InIds :
          (inb[j].pc # "done" /\ inb'[j].pc = "done"
             /\ inb'[j].outcome # "delivered") =>
            /\ onMessageCalls' = onMessageCalls
            /\ wire' = wire]_vars

\* one frame has been decrypted, saved, delivered and acknowledged, and the
\* save of another has failed without callback
C27_Witness ==
  \E j, k \in InIds :
    /\ inb[j].outcome = "delivered"
    /\ onMessageCalls[inb[j].frame] = 1
    /\ BagIn(AckFrame(inb[j].id), wire)
    /\ inb[k].outcome = "storeFailed"
    /\ inb[k].session # 0
    /\ onMessageCalls[inb[k].frame] = 0

\* C28: in the step that ends a sweep, every envelope of the store with
\* synced = FALSE has an entry in pendingSync afterwards, and every entry the
\* index held before is still there with the same syncStatus and retryCount.
C28_SweepTracksUnsynced ==
  [][(swp.pc = "read" /\ swp'.pc = "idle") =>
       /\ \A id \in DOMAIN messages' :
            ~messages'[id].synced => id \in DOMAIN pendingSync'
       /\ \A id \in DOMAIN pendingSync :
            /\ id \in DOMAIN pendingSync'
            /\ pendingSync'[id].syncStatus = pendingSync[id].syncStatus
            /\ pendingSync'[id].retryCount = pendingSync[id].retryCount]_vars

\* a finished sync had sent an envelope and markSynced had removed its index
\* entry; the write of a markAsRead that had read the envelope before put
\* the unsynced record back, and a sweep that has ended entered it again
C28_Witness ==
  /\ swp.pc = "idle"
  /\ \E k \in SyncIds, id \in DOMAIN messages :
       /\ syn[k].pc = "done"
       /\ ~syn[k].refused
       /\ id \in DOMAIN syn[k].due
       /\ messages[id].read
       /\ ~messages[id].synced
       /\ id \in DOMAIN pendingSync

\* C29: every 'message' frame the transport has accepted carries the local
\* user as senderId: syncPendingMessages never sends a received envelope
\* back out.
C29_OnlyOwnEnvelopesResent ==
  myUserId = Me =>
    \A f \in DOMAIN wire :
      (f.type = "message" /\ wire[f] > 0) => f.payload.senderId = myUserId

\* C30: no step turns the read flag or the synced flag of an envelope that
\* stays in the store from TRUE to FALSE.
C30_FlagsMonotone ==
  [][\A id \in DOMAIN messages \cap DOMAIN messages' :
       /\ messages[id].read => messages'[id].read
       /\ messages[id].synced => messages'[id].synced]_vars

\* C31: every id of the pending-sync index is the id of a stored envelope
\* with synced = FALSE.
C31_IndexRefersToUnsyncedEnvelopes ==
  \A id \in DOMAIN pendingSync :
    id \in DOMAIN messages /\ ~messages[id].synced

\* C32: while no establishSession call is between its handshake and the end
\* of its saveSession, every peer with a session in the cache has a record
\* in SessionStore.
C32_CachedSessionsArePersisted ==
  (\A i \in SendIds : snd[i].pc \notin {"handshake", "saveSession"}) =>
    \A p \in DOMAIN sessions :
      \E sid \in DOMAIN sessionRecords : sessionRecords[sid] = p

\* C33: the step in which importMessages writes a message stores it with
\* synced = TRUE under an id the store does not hold, and leaves every
\* envelope of the store as it was.
C33_ImportStoresOnlyNewIds ==
  [][(imp.pc = "store" /\ imp' # imp) =>
       /\ Head(imp.queue).id \notin DOMAIN messages
       /\ messages'[Head(imp.queue).id].synced
       /\ \A id \in DOMAIN messages :
            id \in DOMAIN messages' /\ messages'[id] = messages[id]]_vars

\* isAuthenticated is true exactly when user and token are both non-null
AuthConsistent(state) ==
  state.isAuthenticated <=> (state.user # Null /\ state.token # Null)

\* C34: in every state the reducer reaches, isAuthenticated is true exactly
\* when user and token are both non-null, and a dispatch of AUTH_START,
\* SET_LOADING or CLEAR_ERROR leaves user, token and isAuthenticated as they
\* were.
C34_AuthenticatedIffUserAndToken ==
  /\ AuthConsistent(authState.state)
  /\ [][/\ AuthConsistent(authState'.state)
        /\ (authState'.state # authState.state
              /\ authState'.last \in {"AUTH_START", "SET_LOADING", "CLEAR_ERROR"}) =>
             /\ authState'.state.user = authState.state.user
             /\ authState'.state.token = authState.state.token
             /\ authState'.state.isAuthenticated = authState.state.isAuthenticated]_vars

\* a restore that captured an authenticated state has dispatched after a
\* logout, and AUTH_START has been dispatched on the result
C34_Witness ==
  /\ authState.state.isAuthenticated
  /\ authState.state.user = "user+key"
  /\ authState.state.token = authState.captured.token
  /\ authState.state.isLoading
  /\ authState.last = "AUTH_START"
  /\ authState.pc = "idle"

\* C35: the message list of useMessages never holds two entries with the
\* same id.
C35_NoDuplicateIds ==
  \A a, b \in 1..Len(view.messages) :
    a # b => view.messages[a].id # view.messages[b].id

\* the auto-clear timers pending for a (conversationId, userId) pair
TimersOf(conversationId, userId) ==
  {id \in DOMAIN typing.timers :
     /\ typing.timers[id].conversationId = conversationId
     /\ typing.timers[id].userId = userId}

\* a user shown as typing got an isTyping frame at most 3 seconds ago
TypingIsRecent ==
  \A pair \in typing.typingMap :
    /\ pair \in DOMAIN typing.last
    /\ typing.now <= typing.last[pair] + AutoClearMs

\* at most one auto-clear timer is pending for each pair
OneTimerPerPair ==
  \A c \in TypingConversations, u \in TypingUsers :
    Cardinality(TimersOf(c, u)) <= 1

\* C36: a user shown as typing got an isTyping frame at most 3 seconds ago,
\* and at most one auto-clear timer is pending for each (conversationId,
\* userId) pair.
C36_TypingClearedWithinThreeSeconds ==
  TypingIsRecent /\ OneTimerPerPair

=============================================================================
